---- MODULE Spec2Model ----
(***************************************************************************)
(* Property listing service of the real-estate application:               *)
(*   api/services/propertyService.js      (property CRUD and listings)    *)
(*   api/helper/propertyBuilder.js        (attachImagesToProperties)      *)
(*   api/services/propertyImageService.js (image rows)                    *)
(*   api/models/property.js, propertyImage.js (tables and validation)     *)
(* The store is the MySQL database behind Sequelize.  A JavaScript value  *)
(* that may be null/undefined, and a nullable column, is an optional:     *)
(* <<>> when absent, <<v>> when present.                                  *)
(***************************************************************************)
EXTENDS Integers, Sequences, FiniteSets, TLC

\* ------------------------------------------------------------------ bounds
MaxProps == 2        \* property rows ever created (auto-increment ids 1..MaxProps)
MaxImages == 2       \* image rows ever created
SeedRows == 4        \* rows of the seeded store of the query specification
MaxRequests == 2     \* service calls that may be suspended at an await together
MaxModels == 2       \* 360-degree model rows ever created
MaxFetches == 4      \* requests the Dashboard sends after it is mounted

\* ------------------------------------------------------- program constants
MinYearBuilt == 1800
CurrentYear == 2025

\* ------------------------------------------------------------ value sets
None == <<>>
Some(v) == <<v>>

UserIds == {1, 2}            \* rows of the users table
Admins == {1}                \* the users whose isAdmin is true
GhostUser == 9               \* a user_id with no row in the users table
Names == {"Sea View", "Old House"}
Urls == <<"a.jpg", "b.jpg", "c.jpg", "d.jpg">>   \* the URL of the k-th upload
ModelUrls == <<"a.glb", "b.glb", "c.glb", "d.glb">>

\* The descriptive part of a createProperty call (everything but name and user_id).
Profile(city, price, type, furnished, year, rent) ==
  [description |-> "d", city |-> city, price |-> price, property_type |-> type,
   bedrooms |-> 2, bathrooms |-> 1, living_rooms |-> 1, balconies |-> 0,
   parking_spaces |-> 0, square_meter |-> 120, isForRent |-> rent,
   furnished |-> furnished, year_built |-> year]

Profiles ==
  { Profile("Beirut", 100, "apartment", FALSE, Some(2000), FALSE),
    Profile("Beirut", 100, "villa", TRUE, Some(1700), TRUE) }      \* year below min

\* ------------------------------------------------------------------ state
VARIABLES
  users,        \* user_id values present in the users table
  properties,   \* property_id -> row of the properties table
  nextPropId,   \* AUTO_INCREMENT of properties.property_id
  images,       \* image_id -> row of the PropertyImages table
  nextImageId,  \* AUTO_INCREMENT of PropertyImages.image_id
  models,       \* model_id -> row of the PropertyModels table
  nextModelId,  \* AUTO_INCREMENT of PropertyModels.model_id
  now,          \* the clock read by new Date()
  pc,           \* "ready" | "fetching" | "done" | "error": the request in the service
  call,         \* the service call being (or last) executed: [op, args]
  rows,         \* listing: the rows Property.findAll returned, in order
  fetched,      \* listing: index -> images of rows[index] once its fetch resolved
  completion,   \* listing: the indices in the order their fetches resolved
  reply,        \* what the call returned or threw: [status, value, error]
  inflight,     \* request id -> locals of a service call that awaits: [op, ..., at, reply]
  http,         \* the HTTP request last answered and its status code
  view          \* the state of the Dashboard component in the browser

storeVars == <<users, properties, nextPropId, images, nextImageId,
               models, nextModelId, now>>
reqVars == <<pc, call, rows, fetched, completion, reply>>
vars == <<users, properties, nextPropId, images, nextImageId, models, nextModelId,
          now, pc, call, rows, fetched, completion, reply, inflight, http, view>>

\* ------------------------------------------------------------- sequences
\* All orderings of the finite set S as sequences without repetition.
Perms(S) ==
  { s \in [1..Cardinality(S) -> S] : \A i, j \in 1..Cardinality(S) : i # j => s[i] # s[j] }

\* ----------------------------------------------------------------- replies
Ok(v) == [status |-> "ok", value |-> v, error |-> ""]
Thrown(msg) == [status |-> "error", value |-> None, error |-> msg]

ErrDuplicate == "Property with this name already exists for this user"
ErrNotFound == "Property not found"
ErrValidation == "Validation error"
ErrForeignKey == "Cannot add or update a child row: a foreign key constraint fails"
ErrDynamic == "Error fetching properties"
ErrNonApproved == "Error fetching non-approved properties"
ErrByUser == "Error fetching properties by user ID"
ErrUserNotFound == "User not found"
ErrModelUrl == "model_url is required"
ErrOutOfRange == "Out of range value for column 'furnished' at row 1"

\* --------------------------------------------------------- Property model
\* The validators and allowNull/ENUM declarations of the Property model.
ValidProperty(p) ==
  /\ p.property_type \in {"apartment", "villa"}
  /\ p.bedrooms >= 0 /\ p.bathrooms >= 0
  /\ p.living_rooms >= 0 /\ p.balconies >= 0 /\ p.parking_spaces >= 0
  /\ p.year_built # None =>
       (p.year_built[1] >= MinYearBuilt /\ p.year_built[1] <= CurrentYear)

ExistingPropertyByName(name, user_id) ==
  { id \in DOMAIN properties : properties[id].name = name }

\* Property.findOne({ where: { name, user_id } })
ExistingProperty(name, user_id) ==
  { id \in DOMAIN properties :
      properties[id].name = name /\ properties[id].user_id = user_id }

\* isApproved: true
NewRowApproved(id, name, user_id, profile, t) ==
  [property_id |-> id, user_id |-> user_id, name |-> name,
   description |-> profile.description, city |-> profile.city,
   price |-> profile.price, property_type |-> profile.property_type,
   bedrooms |-> profile.bedrooms, bathrooms |-> profile.bathrooms,
   living_rooms |-> profile.living_rooms, balconies |-> profile.balconies,
   parking_spaces |-> profile.parking_spaces, square_meter |-> profile.square_meter,
   isForRent |-> profile.isForRent, furnished |-> profile.furnished,
   year_built |-> profile.year_built, isApproved |-> TRUE, created_at |-> t]

\* The row Property.create builds in createProperty.
NewRow(id, name, user_id, profile, t) ==
  [property_id |-> id, user_id |-> user_id, name |-> name,
   description |-> profile.description, city |-> profile.city,
   price |-> profile.price, property_type |-> profile.property_type,
   bedrooms |-> profile.bedrooms, bathrooms |-> profile.bathrooms,
   living_rooms |-> profile.living_rooms, balconies |-> profile.balconies,
   parking_spaces |-> profile.parking_spaces, square_meter |-> profile.square_meter,
   isForRent |-> profile.isForRent, furnished |-> profile.furnished,
   year_built |-> profile.year_built, isApproved |-> FALSE, created_at |-> t]

\* ------------------------------------------------------ Sequelize queries
\* One column condition of a where object: a plain value is eq; an operator
\* object holds any of Op.ne, Op.gte, Op.lte.
NoCond == [eq |-> None, ne |-> None, gte |-> None, lte |-> None]
Eq(v) == [NoCond EXCEPT !.eq = Some(v)]

\* where[col] = c (adds or replaces the column's condition)
Put(w, col, c) == [k \in DOMAIN w \cup {col} |-> IF k = col THEN c ELSE w[k]]

\* The column value as SQL sees it: year_built is nullable.
SqlValue(row, col) == IF col = "year_built" THEN row[col] ELSE Some(row[col])

\* SQL comparison: a comparison with NULL is not true.
Holds(v, c) ==
  /\ v # None
  /\ c.eq # None => v[1] = c.eq[1]
  /\ c.ne # None => v[1] # c.ne[1]
  /\ c.gte # None => v[1] >= c.gte[1]
  /\ c.lte # None => v[1] <= c.lte[1]

Matches(row, w) == \A col \in DOMAIN w : Holds(SqlValue(row, col), w[col])

Columns ==
  {"property_id", "user_id", "name", "description", "city", "price", "property_type",
   "square_meter", "bedrooms", "bathrooms", "living_rooms", "balconies",
   "parking_spaces", "furnished", "year_built", "isForRent", "isApproved", "created_at"}

\* ORDER BY of MySQL: NULL sorts lowest.
KeyLeq(a, b) == a = None \/ (b # None /\ a[1] <= b[1])

\* r1 may precede r2 under the order array (the service builds at most one term).
MayPrecede(r1, r2, order) ==
  \/ order = <<>>
  \/ /\ order # <<>>
     /\ IF order[1][2] = "ASC"
          THEN KeyLeq(SqlValue(r1, order[1][1]), SqlValue(r2, order[1][1]))
          ELSE KeyLeq(SqlValue(r2, order[1][1]), SqlValue(r1, order[1][1]))

OrderValid(order) == \A k \in 1..Len(order) : order[k][1] \in Columns

\* Property.findAll({ where, order }): every sequence the store may return.  Rows
\* with equal keys, and all rows when there is no ORDER BY, come in any order.
FindAll(w, order) ==
  LET ids == { id \in DOMAIN properties : Matches(properties[id], w) }
  IN  { [i \in 1..Cardinality(ids) |-> properties[s[i]]] :
          s \in { q \in Perms(ids) :
                    \A i, j \in 1..Cardinality(ids) :
                      i < j => MayPrecede(properties[q[i]], properties[q[j]], order) } }

CreatedDesc == << <<"created_at", "DESC">> >>

\* ---------------------------------------------------------- buildOrder
\* price_desc pushes ['price', 'ASC']
BuildOrderDescAsAsc(sortBy) ==
  IF sortBy \in {Some("price_asc"), Some("price_desc")} THEN << <<"price", "ASC">> >>
  ELSE IF sortBy = Some("date_asc") THEN << <<"created_at", "ASC">> >>
  ELSE IF sortBy = Some("date_desc") THEN << <<"created_at", "DESC">> >>
  ELSE IF sortBy = Some("year_asc") THEN << <<"year_built", "ASC">> >>
  ELSE IF sortBy = Some("year_desc") THEN << <<"year_built", "DESC">> >>
  ELSE <<>>

\* an unrecognised key is passed on as a column name
BuildOrderPassThrough(sortBy) ==
  IF sortBy = Some("price_asc") THEN << <<"price", "ASC">> >>
  ELSE IF sortBy = Some("price_desc") THEN << <<"price", "DESC">> >>
  ELSE IF sortBy = Some("date_asc") THEN << <<"created_at", "ASC">> >>
  ELSE IF sortBy = Some("date_desc") THEN << <<"created_at", "DESC">> >>
  ELSE IF sortBy = Some("year_asc") THEN << <<"year_built", "ASC">> >>
  ELSE IF sortBy = Some("year_desc") THEN << <<"year_built", "DESC">> >>
  ELSE IF sortBy # None THEN << <<sortBy[1], "ASC">> >>
  ELSE <<>>

BuildOrder(sortBy) ==
  IF sortBy = Some("price_asc") THEN << <<"price", "ASC">> >>
  ELSE IF sortBy = Some("price_desc") THEN << <<"price", "DESC">> >>
  ELSE IF sortBy = Some("date_asc") THEN << <<"created_at", "ASC">> >>
  ELSE IF sortBy = Some("date_desc") THEN << <<"created_at", "DESC">> >>
  ELSE IF sortBy = Some("year_asc") THEN << <<"year_built", "ASC">> >>
  ELSE IF sortBy = Some("year_desc") THEN << <<"year_built", "DESC">> >>
  ELSE <<>>

\* ------------------------------------------------ getPropertiesDynamic: where
\* JavaScript truthiness of an optional string.
Truthy(s) == s # None /\ s[1] # ""

BaseWhereNoApproval == [c \in {} |-> NoCond]

BaseWhere == [c \in {"isApproved"} |-> Eq(TRUE)]

\* if (isRent)
WithRentTruthy(w, isRent) ==
  IF isRent # None /\ isRent[1] THEN Put(w, "isForRent", Eq(isRent[1])) ELSE w

WithRent(w, isRent) == IF isRent # None THEN Put(w, "isForRent", Eq(isRent[1])) ELSE w

WithCity(w, city) == IF Truthy(city) THEN Put(w, "city", Eq(city[1])) ELSE w

WithType(w, propertyType) ==
  IF Truthy(propertyType) THEN Put(w, "property_type", Eq(propertyType[1])) ELSE w

WithFurnished(w, furnished) ==
  IF furnished # None THEN Put(w, "furnished", Eq(furnished[1])) ELSE w

\* user_id: userId
WithOnlyUser(w, userId) ==
  IF userId # None THEN Put(w, "user_id", Eq(userId[1])) ELSE w

WithExcludeUser(w, userId) ==
  IF userId # None THEN Put(w, "user_id", [NoCond EXCEPT !.ne = userId]) ELSE w

WithYearRange(w, minYear, maxYear) ==
  IF minYear # None \/ maxYear # None
    THEN Put(w, "year_built", [NoCond EXCEPT !.gte = minYear, !.lte = maxYear])
    ELSE w

WithMinPrice(w, minPrice) ==
  IF minPrice # None THEN Put(w, "price", [NoCond EXCEPT !.gte = minPrice]) ELSE w

\* whereCondition.price = { [Op.lte]: maxPrice }
WithMaxPriceOverwriting(w, maxPrice) ==
  IF maxPrice # None THEN Put(w, "price", [NoCond EXCEPT !.lte = maxPrice]) ELSE w

\* { ...whereCondition.price, [Op.lte]: maxPrice }
WithMaxPrice(w, maxPrice) ==
  IF maxPrice # None
    THEN Put(w, "price",
             [(IF "price" \in DOMAIN w THEN w["price"] ELSE NoCond) EXCEPT !.lte = maxPrice])
    ELSE w

DynamicWhere(a) ==
  WithMaxPrice(
    WithMinPrice(
      WithYearRange(
        WithExcludeUser(
          WithFurnished(
            WithType(WithCity(WithRent(BaseWhere, a.isRent), a.city), a.propertyType),
            a.furnished),
          a.userId),
        a.minYear, a.maxYear),
      a.minPrice),
    a.maxPrice)

\* --------------------------------------------------------- updateProperty
\* The twelve arguments of updateProperty after property_id; <<>> is undefined.
NoPatch ==
  [name |-> None, description |-> None, city |-> None, price |-> None,
   property_type |-> None, bedrooms |-> None, bathrooms |-> None,
   living_rooms |-> None, balconies |-> None, parking_spaces |-> None,
   furnished |-> None, year_built |-> None]

Patches ==
  { NoPatch,
    [NoPatch EXCEPT !.price = Some(200)],
    [NoPatch EXCEPT !.property_type = Some("house")] }
  \cup { [NoPatch EXCEPT !.name = Some(n)] : n \in Names }

\* furnished is missing from the object given to property.update
ApplyPatchWithoutFurnished(row, patch) ==
  [f \in DOMAIN row |->
     IF f \in DOMAIN patch \ {"furnished"} /\ patch[f] # None
       THEN (IF f = "year_built" THEN patch[f] ELSE patch[f][1])
       ELSE row[f]]

\* an edited property goes back to the approval queue
ApplyPatchResetsApproval(row, patch) ==
  [f \in DOMAIN row |->
     IF f = "isApproved" THEN FALSE
     ELSE IF f \in DOMAIN patch /\ patch[f] # None
       THEN (IF f = "year_built" THEN patch[f] ELSE patch[f][1])
       ELSE row[f]]

\* instance.update(values): undefined values are omitted, the others are set.
ApplyPatch(row, patch) ==
  [f \in DOMAIN row |->
     IF f \in DOMAIN patch /\ patch[f] # None
       THEN (IF f = "year_built" THEN patch[f] ELSE patch[f][1])
       ELSE row[f]]

\* ------------------------------------------------------- PropertyImage rows
\* PropertyImage.findAll({ where: { property_id }, order: [['image_id', 'ASC']] })
ImageIdsOf(propertyId) == { k \in DOMAIN images : images[k].property_id = propertyId }

\* order: [['image_id', 'DESC']]
RECURSIVE DescendingIds(_)
DescendingIds(S) ==
  IF S = {} THEN <<>>
  ELSE LET m == CHOOSE x \in S : \A y \in S : x >= y
       IN  <<m>> \o DescendingIds(S \ {m})

RECURSIVE AscendingIds(_)
AscendingIds(S) ==
  IF S = {} THEN <<>>
  ELSE LET m == CHOOSE x \in S : \A y \in S : x <= y
       IN  <<m>> \o AscendingIds(S \ {m})

GetImagesByProperty(propertyId) ==
  LET ids == AscendingIds(ImageIdsOf(propertyId))
  IN  [i \in 1..Len(ids) |-> images[ids[i]]]

\* ------------------------------------------------ attachImagesToProperties
\* { ...property.toJSON(), images: images.map(img => img.image_url) }
WithImages(row, imgs) ==
  [f \in DOMAIN row \cup {"images"} |->
     IF f = "images" THEN [i \in 1..Len(imgs) |-> imgs[i].image_url] ELSE row[f]]

\* results.push(value) as each promise resolves
PromiseAllInCompletionOrder(values, resolved) ==
  [k \in 1..Len(resolved) |-> values[resolved[k]]]

\* Promise.all: the value of the i-th promise at position i, whatever the order
\* in which the promises resolved.
PromiseAll(values, resolved) == [i \in 1..Len(resolved) |-> values[i]]

\* The values the callbacks of properties.map resolve to, by row index.
Attached(rs, fs) == [i \in 1..Len(rs) |-> WithImages(rs[i], fs[i])]

\* -------------------------------------------------------------------- Init
NoFetch == [i \in {} |-> <<>>]
NoCall == [op |-> "none"]
NoneInFlight == [r \in {} |-> <<>>]
NoRequest == [route |-> "none", authorization |-> "absent", actor |-> None,
              user_id |-> None, property_id |-> None, isApproved |-> None, code |-> 0]
NotMounted == [mounted |-> FALSE]

Init ==
  /\ users = UserIds
  /\ properties = [id \in {} |-> <<>>]
  /\ nextPropId = 1
  /\ images = [k \in {} |-> <<>>]
  /\ nextImageId = 1
  /\ models = [m \in {} |-> <<>>]
  /\ nextModelId = 1
  /\ now = 0
  /\ pc = "ready"
  /\ call = NoCall
  /\ rows = <<>>
  /\ fetched = NoFetch
  /\ completion = <<>>
  /\ reply = Ok(None)
  /\ inflight = NoneInFlight
  /\ http = NoRequest
  /\ view = NotMounted

\* A call that runs to its end without an await on which others interleave.
Returns(c, r) ==
  /\ call' = c
  /\ reply' = r
  /\ pc' = IF r.status = "ok" THEN "done" ELSE "error"
  /\ rows' = <<>>
  /\ fetched' = NoFetch
  /\ completion' = <<>>

\* ----------------------------------------------------------- createProperty
CreateProperty(name, user_id, profile, t) ==
  LET c == [op |-> "createProperty", name |-> name, user_id |-> user_id,
            profile |-> profile]
  IN
  IF ExistingProperty(name, user_id) # {}
       THEN /\ Returns(c, Thrown(ErrDuplicate))
            /\ UNCHANGED storeVars
       ELSE   /\ t >= now
              /\ LET row == NewRow(nextPropId, name, user_id, profile, t) IN
                 IF ~ValidProperty(row)
                   THEN /\ Returns(c, Thrown(ErrValidation))
                        /\ UNCHANGED storeVars
                 ELSE IF user_id \notin users
                   THEN /\ Returns(c, Thrown(ErrForeignKey))
                        /\ UNCHANGED storeVars
                 ELSE /\ nextPropId <= MaxProps
                      /\ properties' =
                           [id \in DOMAIN properties \cup {nextPropId} |->
                              IF id = nextPropId THEN row ELSE properties[id]]
                      /\ nextPropId' = nextPropId + 1
                      /\ now' = t
                      /\ Returns(c, Ok(Some(row)))
                      /\ UNCHANGED <<users, images, nextImageId, models, nextModelId>>

\* ----------------------------------------------------------- updateProperty
\* the UPDATE is issued on the table, with no WHERE on the primary key
UpdatePropertyEveryRow(property_id, patch) ==
  LET c == [op |-> "updateProperty", property_id |-> property_id, patch |-> patch]
  IN
  IF property_id \notin DOMAIN properties
    THEN /\ Returns(c, Thrown(ErrNotFound))
         /\ UNCHANGED storeVars
    ELSE LET row == ApplyPatch(properties[property_id], patch) IN
         IF ~ValidProperty(row)
           THEN /\ Returns(c, Thrown(ErrValidation))
                /\ UNCHANGED storeVars
           ELSE /\ properties' = [id \in DOMAIN properties |->
                                    ApplyPatch(properties[id], patch)]
                /\ Returns(c, Ok(Some(row)))
                /\ UNCHANGED <<users, nextPropId, images, nextImageId, models, nextModelId, now>>

UpdateProperty(property_id, patch) ==
  LET c == [op |-> "updateProperty", property_id |-> property_id, patch |-> patch]
  IN
  IF property_id \notin DOMAIN properties
    THEN /\ Returns(c, Thrown(ErrNotFound))
         /\ UNCHANGED storeVars
    ELSE LET row == ApplyPatch(properties[property_id], patch) IN
         IF ~ValidProperty(row)
           THEN /\ Returns(c, Thrown(ErrValidation))
                /\ UNCHANGED storeVars
           ELSE /\ properties' = [properties EXCEPT ![property_id] = row]
                /\ Returns(c, Ok(Some(row)))
                /\ UNCHANGED <<users, nextPropId, images, nextImageId, models, nextModelId, now>>

\* ----------------------------------------------------------- deleteProperty
\* PropertyModel.findAll({ where: { property_id } })
ModelIdsOf(propertyId) == { m \in DOMAIN models : models[m].property_id = propertyId }

\* no onDelete on PropertyModels.property_id
KeepModels(property_id) == models

\* The PropertyModels rows left by the ON DELETE CASCADE of the foreign key.
CascadeModels(property_id) ==
  [m \in DOMAIN models \ ModelIdsOf(property_id) |-> models[m]]

\* property.destroy(); the PropertyImages and PropertyModels foreign keys are
\* ON DELETE CASCADE.
DeleteProperty(property_id) ==
  LET c == [op |-> "deleteProperty", property_id |-> property_id]
  IN
  IF property_id \notin DOMAIN properties
    THEN /\ Returns(c, Thrown(ErrNotFound))
         /\ UNCHANGED storeVars
    ELSE /\ properties' = [id \in DOMAIN properties \ {property_id} |-> properties[id]]
         /\ images' = [k \in DOMAIN images \ ImageIdsOf(property_id) |-> images[k]]
         /\ models' = CascadeModels(property_id)
         /\ Returns(c, Ok(None))
         /\ UNCHANGED <<users, nextPropId, nextImageId, nextModelId, now>>

\* ---------------------------------------------------------- approveProperty
ApproveProperty(property_id) ==
  LET c == [op |-> "approveProperty", property_id |-> property_id]
  IN
  IF property_id \notin DOMAIN properties
    THEN /\ Returns(c, Thrown(ErrNotFound))
         /\ UNCHANGED storeVars
    ELSE /\ properties' = [properties EXCEPT ![property_id].isApproved = TRUE]
         /\ Returns(c, Ok(Some(properties'[property_id])))
         /\ UNCHANGED <<users, nextPropId, images, nextImageId, models, nextModelId, now>>

\* ----------------------------------------------------- addImage, deleteImage
AddImage(image_url, property_id) ==
  LET c == [op |-> "addImage", image_url |-> image_url, property_id |-> property_id]
      row == [image_id |-> nextImageId, image_url |-> image_url,
              property_id |-> property_id]
  IN
  /\ nextImageId <= MaxImages
  /\ IF property_id \notin DOMAIN properties
       THEN /\ Returns(c, Thrown("Failed to add image: " \o ErrForeignKey))
            /\ UNCHANGED storeVars
       ELSE /\ images' = [k \in DOMAIN images \cup {nextImageId} |->
                            IF k = nextImageId THEN row ELSE images[k]]
            /\ nextImageId' = nextImageId + 1
            /\ Returns(c, Ok(Some(row)))
            /\ UNCHANGED <<users, properties, nextPropId, models, nextModelId, now>>

DeleteImage(imageId) ==
  LET c == [op |-> "deleteImage", image_id |-> imageId]
  IN
  IF imageId \notin DOMAIN images
    THEN /\ Returns(c, Thrown("Failed to delete image: Image not found"))
         /\ UNCHANGED storeVars
    ELSE /\ images' = [k \in DOMAIN images \ {imageId} |-> images[k]]
         /\ Returns(c, Ok(None))
         /\ UNCHANGED <<users, properties, nextPropId, nextImageId, models, nextModelId, now>>

\* ---------------------------------------------------- getApprovedProperties
GetApprovedProperties ==
  \E s \in FindAll([c \in {"isApproved"} |-> Eq(TRUE)], CreatedDesc) :
    /\ Returns([op |-> "getApprovedProperties"], Ok(s))
    /\ UNCHANGED storeVars

\* ------------------------------- getPropertiesByType, getPropertiesByLocation
\* where: { property_type: propertyType, isApproved: true }
GetPropertiesByTypeApprovedOnly(propertyType) ==
  \E s \in FindAll([c \in {"property_type", "isApproved"} |->
                      IF c = "isApproved" THEN Eq(TRUE) ELSE Eq(propertyType)],
                   CreatedDesc) :
    /\ Returns([op |-> "getPropertiesByType", propertyType |-> propertyType], Ok(s))
    /\ UNCHANGED storeVars

GetPropertiesByType(propertyType) ==
  \E s \in FindAll([c \in {"property_type"} |-> Eq(propertyType)], CreatedDesc) :
    /\ Returns([op |-> "getPropertiesByType", propertyType |-> propertyType], Ok(s))
    /\ UNCHANGED storeVars

GetPropertiesByLocation(propertyType, city) ==
  \E s \in FindAll([c \in {"property_type", "city"} |->
                      IF c = "city" THEN Eq(city) ELSE Eq(propertyType)],
                   CreatedDesc) :
    /\ Returns([op |-> "getPropertiesByLocation", propertyType |-> propertyType,
                 city |-> city], Ok(s))
    /\ UNCHANGED storeVars

\* ------------------------------------------------------ listings with images
Pending == [status |-> "pending", value |-> None, error |-> ""]

\* if (properties.length === 0) throw new Error(...)
StartListingRejectsEmpty(c, w, order, err) ==
  IF ~OrderValid(order)
    THEN /\ Returns(c, Thrown(err))
         /\ UNCHANGED storeVars
    ELSE \E s \in FindAll(w, order) :
           /\ call' = c
           /\ rows' = s
           /\ fetched' = NoFetch
           /\ completion' = <<>>
           /\ pc' = IF s = <<>> THEN "error" ELSE "fetching"
           /\ reply' = IF s = <<>> THEN Thrown(err) ELSE Pending
           /\ UNCHANGED storeVars

\* let properties = await Property.findAll({ where, order }) inside try/catch,
\* then attachImagesToProperties(properties) issues one image query per row.
StartListing(c, w, order, err) ==
  IF ~OrderValid(order)
    THEN /\ Returns(c, Thrown(err))
         /\ UNCHANGED storeVars
    ELSE \E s \in FindAll(w, order) :
           /\ call' = c
           /\ rows' = s
           /\ fetched' = NoFetch
           /\ completion' = <<>>
           /\ pc' = IF s = <<>> THEN "done" ELSE "fetching"
           /\ reply' = IF s = <<>> THEN Ok(<<>>) ELSE Pending
           /\ UNCHANGED storeVars

ListingError(op) ==
  IF op = "getPropertiesDynamic" THEN ErrDynamic
  ELSE IF op = "getNonApprovedProperties" THEN ErrNonApproved
  ELSE ErrByUser

\* The store fails the findAll of a listing: the catch block rethrows.
FindAllFails(c) ==
  /\ Returns(c, Thrown(ListingError(c.op)))
  /\ UNCHANGED storeVars

\* catch { images = [] }: the row is returned without images
OnFetchRejectedDegrade(i) ==
  /\ fetched' = [k \in DOMAIN fetched \cup {i} |-> IF k = i THEN <<>> ELSE fetched[k]]
  /\ completion' = Append(completion, i)
  /\ IF Len(completion') = Len(rows)
       THEN /\ pc' = "done"
            /\ reply' = Ok([k \in 1..Len(rows) |-> WithImages(rows[k], fetched'[k])])
       ELSE UNCHANGED <<pc, reply>>
  /\ UNCHANGED <<call, rows>>

\* What the listing does when getImagesByProperty rejects for one row:
\* Promise.all rejects, the await throws, the catch block rethrows.
OnFetchRejected(i) ==
  /\ pc' = "error"
  /\ reply' = Thrown(ListingError(call.op))
  /\ UNCHANGED <<call, rows, fetched, completion>>

\* getImagesByProperty(rows[i].property_id) resolves; with the last one
\* Promise.all resolves and the listing returns.
FetchResolves(i) ==
  /\ pc = "fetching"
  /\ i \in (1..Len(rows)) \ DOMAIN fetched
  /\ fetched' = [k \in DOMAIN fetched \cup {i} |->
                   IF k = i THEN GetImagesByProperty(rows[i].property_id)
                   ELSE fetched[k]]
  /\ completion' = Append(completion, i)
  /\ IF Len(completion') = Len(rows)
       THEN /\ pc' = "done"
            /\ reply' = Ok(PromiseAll(Attached(rows, fetched'), completion'))
       ELSE UNCHANGED <<pc, reply>>
  /\ UNCHANGED <<call, rows>>
  /\ UNCHANGED storeVars

\* The store fails the image query of rows[i].
FetchRejects(i) ==
  /\ pc = "fetching"
  /\ i \in (1..Len(rows)) \ DOMAIN fetched
  /\ OnFetchRejected(i)
  /\ UNCHANGED storeVars

GetNonApprovedProperties ==
  StartListing([op |-> "getNonApprovedProperties"],
               [c \in {"isApproved"} |-> Eq(FALSE)], CreatedDesc, ErrNonApproved)

GetPropertiesByUserId(user_id) ==
  StartListing([op |-> "getPropertiesByUserId", user_id |-> user_id],
               [c \in {"user_id"} |-> Eq(user_id)], CreatedDesc, ErrByUser)

\* ----------------------------------------------------- getPropertiesDynamic
NoArgs ==
  [isRent |-> None, sortBy |-> None, city |-> None, propertyType |-> None,
   minPrice |-> None, maxPrice |-> None, minYear |-> None, maxYear |-> None,
   furnished |-> None, userId |-> None]

GetPropertiesDynamic(a) ==
  StartListing([op |-> "getPropertiesDynamic", args |-> a],
               DynamicWhere(a), BuildOrder(a.sortBy), ErrDynamic)

\* The same call with the image queries answered in row order, in one step.
GetPropertiesDynamicWhole(a) ==
  IF ~OrderValid(BuildOrder(a.sortBy))
    THEN /\ Returns([op |-> "getPropertiesDynamic", args |-> a], Thrown(ErrDynamic))
         /\ UNCHANGED storeVars
    ELSE \E s \in FindAll(DynamicWhere(a), BuildOrder(a.sortBy)) :
           /\ call' = [op |-> "getPropertiesDynamic", args |-> a]
           /\ rows' = s
           /\ fetched' = [i \in 1..Len(s) |-> GetImagesByProperty(s[i].property_id)]
           /\ completion' = [i \in 1..Len(s) |-> i]
           /\ pc' = "done"
           /\ reply' = Ok(PromiseAll(Attached(rows', fetched'), completion'))
           /\ UNCHANGED storeVars

\* ------------------------------------------------------------ specification
\* Requests of the lifecycle specification.
LifecycleArgs ==
  { NoArgs,
    [NoArgs EXCEPT !.userId = Some(1)],
    [NoArgs EXCEPT !.minPrice = Some(200), !.sortBy = Some("date_desc")] }

\* A request enters the service only when no listing is between its queries.
Idle == pc # "fetching"

\* Property lifecycle: create, update, approve, delete and the approved listings.
Next ==
  \/ Idle /\ UNCHANGED <<inflight, http, view>>
          /\ \E n \in Names, u \in UserIds \cup {GhostUser}, p \in Profiles :
               CreateProperty(n, u, p, now + 1)
  \/ Idle /\ UNCHANGED <<inflight, http, view>> /\ \E id \in 1..MaxProps, patch \in Patches : UpdateProperty(id, patch)
  \/ Idle /\ UNCHANGED <<inflight, http, view>> /\ \E id \in 1..MaxProps : DeleteProperty(id)
  \/ Idle /\ UNCHANGED <<inflight, http, view>> /\ \E id \in 1..MaxProps : ApproveProperty(id)
  \/ Idle /\ UNCHANGED <<inflight, http, view>> /\ GetApprovedProperties
  \/ Idle /\ UNCHANGED <<inflight, http, view>> /\ \E a \in LifecycleArgs : GetPropertiesDynamicWhole(a)

Spec == Init /\ [][Next]_vars

\* Listings with images: the image queries of one listing resolve or fail one
\* by one, in any order.  Every property is created under a new name at a new
\* instant, so that created_at orders the rows of a listing.
ImageProfile == Profile("Beirut", 100, "apartment", FALSE, Some(2000), FALSE)
ImageNames == <<"Sea View", "Old House", "Garden", "Loft">>

NextImages ==
  \/ Idle /\ UNCHANGED <<inflight, http, view>>
          /\ \E u \in UserIds :
               CreateProperty(ImageNames[nextPropId], u, ImageProfile, now + 1)
  \/ Idle /\ UNCHANGED <<inflight, http, view>> /\ \E id \in 1..MaxProps : DeleteProperty(id)
  \/ Idle /\ UNCHANGED <<inflight, http, view>> /\ \E id \in 1..MaxProps : ApproveProperty(id)
  \/ Idle /\ UNCHANGED <<inflight, http, view>> /\ \E id \in 1..MaxProps : AddImage(Urls[nextImageId], id)
  \/ Idle /\ UNCHANGED <<inflight, http, view>> /\ \E k \in 1..MaxImages : DeleteImage(k)
  \/ Idle /\ UNCHANGED <<inflight, http, view>> /\ GetNonApprovedProperties
  \/ Idle /\ UNCHANGED <<inflight, http, view>> /\ \E u \in UserIds : GetPropertiesByUserId(u)
  \/ Idle /\ UNCHANGED <<inflight, http, view>>
          /\ GetPropertiesDynamic([NoArgs EXCEPT !.sortBy = Some("date_asc")])
  \/ Idle /\ UNCHANGED <<inflight, http, view>> /\ FindAllFails([op |-> "getNonApprovedProperties"])
  \/ UNCHANGED <<inflight, http, view>> /\ \E i \in 1..MaxProps : FetchResolves(i)
  \/ UNCHANGED <<inflight, http, view>> /\ \E i \in 1..MaxProps : FetchRejects(i)

SpecImages == Init /\ [][NextImages]_vars

\* ------------------------------------------------- query specification
\* A seeded store (the scenario of the specification's section 8 and rows with
\* equal prices, equal dates and a NULL year) queried once with every
\* combination of filter arguments.
Seed(id, user_id, name, city, type, price, year, furnished, rent, approved, t) ==
  [NewRow(id, name, user_id, Profile(city, price, type, furnished, year, rent), t)
     EXCEPT !.isApproved = approved]

Catalogue ==
  << Seed(1, 1, "Sea View", "Beirut", "apartment", 100, Some(2000), FALSE, FALSE, TRUE, 1),
     Seed(2, 1, "Old House", "Beirut", "villa", 200, Some(2010), TRUE, TRUE, TRUE, 2),
     Seed(3, 2, "Sea View", "Tripoli", "villa", 200, Some(2010), TRUE, TRUE, FALSE, 2),
     Seed(4, 2, "Old House", "Tripoli", "villa", 100, None, FALSE, TRUE, TRUE, 2),
     Seed(5, 2, "Garden", "Beirut", "apartment", 200, Some(2000), TRUE, FALSE, TRUE, 2),
     Seed(6, 1, "Garden", "Tripoli", "apartment", 100, Some(2010), TRUE, TRUE, FALSE, 2) >>

SortKeys == {"price_asc", "price_desc", "date_asc", "date_desc", "year_asc", "year_desc"}

AllArgs ==
  [isRent : {None, Some(TRUE), Some(FALSE)},
   sortBy : {None, Some("newest")} \cup { Some(k) : k \in SortKeys },
   city : {None, Some("Beirut")},
   propertyType : {None, Some("villa")},
   minPrice : {None, Some(100), Some(200)},
   maxPrice : {None, Some(100), Some(200)},
   minYear : {None, Some(2000), Some(2010)},
   maxYear : {None, Some(2000), Some(2010)},
   furnished : {None, Some(TRUE), Some(FALSE)},
   userId : {None, Some(1)}]

InitQuery ==
  /\ users = UserIds
  /\ properties = [id \in 1..SeedRows |-> Catalogue[id]]
  /\ nextPropId = SeedRows + 1
  /\ images = [k \in 1..3 |->
                 [image_id |-> k, image_url |-> Urls[k],
                  property_id |-> IF k = 2 THEN 1 ELSE 2]]
  /\ nextImageId = 4
  /\ models = [m \in {} |-> <<>>]
  /\ nextModelId = 1
  /\ now = 2
  /\ pc = "ready"
  /\ call = NoCall
  /\ rows = <<>>
  /\ fetched = NoFetch
  /\ completion = <<>>
  /\ reply = Ok(None)
  /\ inflight = NoneInFlight
  /\ http = NoRequest
  /\ view = NotMounted

NextQuery ==
  /\ pc = "ready" /\ \E a \in AllArgs : GetPropertiesDynamicWhole(a)
  /\ UNCHANGED <<inflight, http, view>>

SpecQuery == InitQuery /\ [][NextQuery]_vars

\* ------------------------------------------- createProperty, await by await
\* One more entry of inflight.
Suspend(r, locals) ==
  [q \in DOMAIN inflight \cup {r} |-> IF q = r THEN locals ELSE inflight[q]]

\* const existingProperty = await Property.findOne({ where: { name, user_id } })
CreatePropertyFindOne(r, name, user_id, profile) ==
  /\ r \notin DOMAIN inflight
  /\ inflight' = Suspend(r, [op |-> "createProperty", name |-> name, user_id |-> user_id,
                             profile |-> profile,
                             existingProperty |-> ExistingProperty(name, user_id) # {},
                             at |-> "findOne", reply |-> Pending])
  /\ UNCHANGED <<storeVars, reqVars, http, view>>

\* if (existingProperty) throw ...; return await Property.create({ ... })
CreatePropertyCreate(r, t) ==
  /\ r \in DOMAIN inflight
  /\ inflight[r].op = "createProperty" /\ inflight[r].at = "findOne"
  /\ LET l == inflight[r]
         row == NewRow(nextPropId, l.name, l.user_id, l.profile, t)
         Done(reply_) == inflight' = [inflight EXCEPT ![r].at = "returned",
                                                      ![r].reply = reply_]
     IN  IF l.existingProperty
           THEN Done(Thrown(ErrDuplicate)) /\ UNCHANGED storeVars
         ELSE IF ~ValidProperty(row)
           THEN Done(Thrown(ErrValidation)) /\ UNCHANGED storeVars
         ELSE IF l.user_id \notin users
           THEN Done(Thrown(ErrForeignKey)) /\ UNCHANGED storeVars
         ELSE /\ nextPropId <= MaxProps
              /\ properties' = [id \in DOMAIN properties \cup {nextPropId} |->
                                  IF id = nextPropId THEN row ELSE properties[id]]
              /\ nextPropId' = nextPropId + 1
              /\ now' = t
              /\ Done(Ok(Some(row)))
              /\ UNCHANGED <<users, images, nextImageId, models, nextModelId>>
  /\ UNCHANGED <<reqVars, http, view>>

\* createProperty calls whose awaits interleave.
NextRace ==
  \/ \E r \in 1..MaxRequests, n \in Names, u \in UserIds \cup {GhostUser}, p \in Profiles :
       CreatePropertyFindOne(r, n, u, p)
  \/ \E r \in 1..MaxRequests : CreatePropertyCreate(r, now + 1)

SpecRace == Init /\ [][NextRace]_vars

\* ------------------------------------------------------------ HTTP layer
\* The Authorization header: absent, or a bearer token naming a user, which
\* jwt.verify accepts when it is signed with JWT_SECRET.
Token(user, signed) == Some([user |-> user, signed |-> signed])
Tokens == {None} \cup { Token(u, sg) : u \in UserIds, sg \in BOOLEAN }

\* jwt.decode(token): the signature is not checked
AuthenticateTokenDecodeOnly(token) == IF token = None THEN 401 ELSE 0

\* authenticateToken: 401 without a token, 403 when jwt.verify throws, else next().
AuthenticateToken(token) ==
  IF token = None THEN 401
  ELSE IF ~token[1].signed THEN 403
  ELSE 0

\* req.user after authenticateToken.
Actor(token) == IF AuthenticateToken(token) = 0 THEN Some(token[1].user) ELSE None

\* What the request's Authorization header holds.
Authorization(token) ==
  IF token = None THEN "absent" ELSE IF token[1].signed THEN "verified" ELSE "invalid"

Request(route, token, user_id, property_id, isApproved, code) ==
  [route |-> route, authorization |-> Authorization(token), actor |-> Actor(token),
   user_id |-> user_id, property_id |-> property_id, isApproved |-> isApproved,
   code |-> code]

\* The response of a handler that returned before it called the service.
Answered(request) ==
  /\ http' = request
  /\ UNCHANGED <<storeVars, reqVars, inflight, view>>

\* POST /create: authToken, then the createProperty handler.  The handler reads
\* fifteen named fields of the body; body.isApproved is not one of them.
CreatePropertyRequest(token, body, t) ==
  LET Req(code) == Request("POST /create", token, Some(body.user_id), None,
                           body.isApproved, code)
  IN  IF AuthenticateToken(token) # 0 THEN Answered(Req(AuthenticateToken(token)))
      ELSE IF body.user_id \notin users THEN Answered(Req(404))
      ELSE /\ CreateProperty(body.name, body.user_id, body.profile, t)
           /\ http' = Req(IF reply'.status = "ok" THEN 201 ELSE 400)
           /\ UNCHANGED <<inflight, view>>

\* PUT /update/:property_id: authToken, then the updateProperty handler, which
\* passes (..., parking_spaces, year_built, furnished) to a service that reads
\* them as (..., parking_spaces, furnished, year_built).  body.year_built is a
\* year (validateUpdateProperty requires one), so the UPDATE sets the
\* TINYINT(1) column furnished to a year and the store rejects the statement.
UpdatePropertyRequest(token, property_id, body) ==
  LET Req(code) == Request("PUT /update", token, None, Some(property_id), None, code)
      c == [op |-> "updateProperty", property_id |-> property_id,
            patch |-> [body EXCEPT !.furnished = body.year_built,
                                   !.year_built = body.furnished]]
  IN  IF AuthenticateToken(token) # 0 THEN Answered(Req(AuthenticateToken(token)))
      ELSE /\ IF property_id \notin DOMAIN properties
                THEN Returns(c, Thrown(ErrNotFound))
                ELSE Returns(c, Thrown(ErrOutOfRange))
           /\ http' = Req(400)
           /\ UNCHANGED <<storeVars, inflight, view>>

\* DELETE /delete/:property_id: authToken, then the deleteProperty handler.
DeletePropertyRequest(token, property_id) ==
  LET Req(code) == Request("DELETE /delete", token, None, Some(property_id), None, code)
  IN  IF AuthenticateToken(token) # 0 THEN Answered(Req(AuthenticateToken(token)))
      ELSE /\ DeleteProperty(property_id)
           /\ http' = Req(IF reply'.status = "ok" THEN 200 ELSE 400)
           /\ UNCHANGED <<inflight, view>>

\* PUT /approve/:property_id: authToken, then the approveProperty handler, which
\* looks up the user named by body.user_id.
ApprovePropertyRequest(token, property_id, user_id) ==
  LET Req(code) == Request("PUT /approve", token, user_id, Some(property_id), None, code)
  IN  IF AuthenticateToken(token) # 0 THEN Answered(Req(AuthenticateToken(token)))
      ELSE IF user_id = None \/ user_id[1] \notin users \/ user_id[1] \notin Admins
        THEN Answered(Req(403))
      ELSE /\ ApproveProperty(property_id)
           /\ http' = Req(IF reply'.status = "ok" THEN 200 ELSE 400)
           /\ UNCHANGED <<inflight, view>>

\* Request bodies that pass the validators of their routes.
CreateBodies ==
  [name : {ImageNames[nextPropId]}, user_id : UserIds \cup {GhostUser},
   profile : {ImageProfile}, isApproved : {None, Some(TRUE)}]

UpdateBodies ==
  { [NoPatch EXCEPT !.price = Some(200), !.year_built = Some(y), !.furnished = Some(f)] :
      y \in {2000}, f \in BOOLEAN }

\* The routes that change properties.
NextHttp ==
  \/ Idle /\ \E tk \in Tokens, b \in CreateBodies : CreatePropertyRequest(tk, b, now + 1)
  \/ Idle /\ \E tk \in Tokens, id \in 1..MaxProps, b \in UpdateBodies :
               UpdatePropertyRequest(tk, id, b)
  \/ Idle /\ \E tk \in Tokens, id \in 1..MaxProps : DeletePropertyRequest(tk, id)
  \/ Idle /\ \E tk \in Tokens, id \in 1..MaxProps, u \in {None} \cup { Some(v) : v \in UserIds } :
               ApprovePropertyRequest(tk, id, u)

SpecHttp == Init /\ [][NextHttp]_vars

\* Approval: properties created through POST /create by a logged-in user, with
\* updateProperty, approveProperty and deleteProperty called on the service.
ApprovalPatches ==
  { [NoPatch EXCEPT !.price = Some(200)],
    [NoPatch EXCEPT !.property_type = Some("house")] }

NextApproval ==
  \/ Idle /\ \E b \in CreateBodies : CreatePropertyRequest(Token(1, TRUE), b, now + 1)
  \/ Idle /\ http' = NoRequest /\ UNCHANGED <<inflight, view>>
          /\ \E id \in 1..MaxProps, patch \in ApprovalPatches : UpdateProperty(id, patch)
  \/ Idle /\ http' = NoRequest /\ UNCHANGED <<inflight, view>>
          /\ \E id \in 1..MaxProps : ApproveProperty(id)
  \/ Idle /\ http' = NoRequest /\ UNCHANGED <<inflight, view>>
          /\ \E id \in 1..MaxProps : DeleteProperty(id)

SpecApproval == Init /\ [][NextApproval]_vars

\* ------------------------------------------------------------ POST /dynamic
\* The fields of a request body that the validators or the handler of
\* POST /dynamic read.
NoBody ==
  [isRent |-> None, sortBy |-> None, city |-> None, propertyType |-> None,
   minPrice |-> None, maxPrice |-> None, minYear |-> None, maxYear |-> None,
   furnished |-> None, userId |-> None, minYearBuilt |-> None, maxYearBuilt |-> None]

\* !value of an optional number
Falsy(v) == v = None \/ v[1] = 0

\* validateGetPropertiesDynamic: TRUE when the chain records no error.  The
\* year checks read body.minYearBuilt and body.maxYearBuilt.
ValidateGetPropertiesDynamic(body) ==
  /\ (body.sortBy # None /\ body.sortBy[1] # "") => body.sortBy[1] \in SortKeys
  /\ body.city # None => Len(body.city[1]) >= 3
  /\ body.propertyType # None => body.propertyType[1] \in {"villa", "apartment"}
  /\ body.minPrice # None =>
       (Falsy(body.maxPrice) \/ body.minPrice[1] <= body.maxPrice[1])
  /\ body.maxPrice # None =>
       (Falsy(body.minPrice) \/ body.maxPrice[1] >= body.minPrice[1])
  /\ body.minYearBuilt # None => body.minYearBuilt[1] \in MinYearBuilt..CurrentYear
  /\ body.maxYearBuilt # None =>
       /\ body.maxYearBuilt[1] \in 1900..CurrentYear
       /\ Falsy(body.minYearBuilt) \/ body.maxYearBuilt[1] >= body.minYearBuilt[1]
  /\ body.userId # None => body.userId[1] >= 1

\* validate: answers 400 when the validators recorded an error, else next().
Validate(passed) == IF passed THEN 0 ELSE 400

\* The arguments the getPropertiesDynamic handler takes from req.body.
DynamicArgsOf(body) == [f \in DOMAIN NoArgs |-> body[f]]

\* POST /dynamic: validateGetPropertiesDynamic, authToken, validate, then the
\* getPropertiesDynamic handler.
GetPropertiesDynamicRequest(token, body) ==
  LET Req(code) == Request("POST /dynamic", token, None, None, None, code)
  IN  IF AuthenticateToken(token) # 0
        THEN http' = Req(AuthenticateToken(token)) /\ UNCHANGED <<storeVars, reqVars>>
      ELSE IF Validate(ValidateGetPropertiesDynamic(body)) # 0
        THEN http' = Req(400) /\ UNCHANGED <<storeVars, reqVars>>
      ELSE /\ GetPropertiesDynamicWhole(DynamicArgsOf(body))
           /\ http' = Req(IF reply'.status = "ok" THEN 200 ELSE 400)

\* Request bodies with price bounds, year bounds under both pairs of names, a
\* sort key and a city, valid or not.
DynamicBodies ==
  { [NoBody EXCEPT !.minPrice = b[1], !.maxPrice = b[2], !.minYear = b[3],
                   !.maxYear = b[4], !.minYearBuilt = b[5], !.maxYearBuilt = b[6],
                   !.city = b[7]] :
      b \in {None, Some(0), Some(100), Some(200)} \X {None, Some(0), Some(100), Some(200)}
            \X {None, Some(2000), Some(2010)} \X {None, Some(2000), Some(2010)}
            \X {None, Some(2010)} \X {None, Some(2000)}
            \X {None, Some("ab")} }

\* Requests to POST /dynamic on the seeded store, until one reaches the service.
NextDynamic ==
  /\ pc = "ready"
  /\ \E tk \in Tokens, body \in DynamicBodies : GetPropertiesDynamicRequest(tk, body)
  /\ UNCHANGED <<inflight, view>>

SpecDynamic == InitQuery /\ [][NextDynamic]_vars

\* ------------------------------------------------- interleaved listings
\* A listing that attaches images, as one suspended request among others:
\* inflight[r] holds its local variables, and seen the states of the
\* properties and images tables from its call to its return.
Snapshot(props, imgs) == [properties |-> props, images |-> imgs]

\* let properties = await Property.findAll({ where, order })
ListingFindAll(r, c, w, order) ==
  /\ r \notin DOMAIN inflight
  /\ \E s \in FindAll(w, order) :
       inflight' = Suspend(r, [call |-> c, rows |-> s, fetched |-> NoFetch,
                               at |-> IF s = <<>> THEN "returned" ELSE "fetching",
                               reply |-> IF s = <<>> THEN Ok(<<>>) ELSE Pending,
                               seen |-> {Snapshot(properties, images)}])
  /\ UNCHANGED <<storeVars, reqVars, http, view>>

\* getImagesByProperty(rows[i].property_id) of request r resolves; with the
\* last one Promise.all resolves and the listing returns.
ListingFetchResolves(r, i) ==
  /\ r \in DOMAIN inflight /\ inflight[r].at = "fetching"
  /\ i \in (1..Len(inflight[r].rows)) \ DOMAIN inflight[r].fetched
  /\ LET l == inflight[r]
         fs == [k \in DOMAIN l.fetched \cup {i} |->
                  IF k = i THEN GetImagesByProperty(l.rows[i].property_id)
                  ELSE l.fetched[k]]
         last == DOMAIN fs = 1..Len(l.rows)
     IN  inflight' = [inflight EXCEPT ![r] =
           [l EXCEPT !.fetched = fs,
                     !.at = IF last THEN "returned" ELSE "fetching",
                     !.reply = IF last THEN Ok(Attached(l.rows, fs)) ELSE Pending]]
  /\ UNCHANGED <<storeVars, reqVars, http, view>>

\* A call of another request changes the store while listings are suspended.
Meanwhile ==
  /\ inflight' = [r \in DOMAIN inflight |->
                    IF inflight[r].at = "fetching"
                      THEN [inflight[r] EXCEPT !.seen = @ \cup {Snapshot(properties', images')}]
                      ELSE inflight[r]]
  /\ UNCHANGED <<http, view>>

\* Two properties of user 1, the second one not approved; the first holds
\* image 1, and one more image may be added.
InitInterleaved ==
  /\ users = UserIds
  /\ properties = [id \in 1..2 |->
                     IF id = 1 THEN Catalogue[1]
                     ELSE [Catalogue[2] EXCEPT !.isApproved = FALSE]]
  /\ nextPropId = 3
  /\ images = [k \in {1} |-> [image_id |-> 1, image_url |-> Urls[1], property_id |-> 1]]
  /\ nextImageId = 2
  /\ models = [m \in {} |-> <<>>]
  /\ nextModelId = 1
  /\ now = 2
  /\ pc = "ready"
  /\ call = NoCall
  /\ rows = <<>>
  /\ fetched = NoFetch
  /\ completion = <<>>
  /\ reply = Ok(None)
  /\ inflight = NoneInFlight
  /\ http = NoRequest
  /\ view = NotMounted

\* One listing of each kind at most, suspended at its awaits while addImage,
\* deleteImage, deleteProperty and approveProperty calls are served.
NextInterleaved ==
  \/ ListingFindAll(1, [op |-> "getPropertiesByUserId", user_id |-> 1],
                    [c \in {"user_id"} |-> Eq(1)], CreatedDesc)
  \/ ListingFindAll(1, [op |-> "getNonApprovedProperties"],
                    [c \in {"isApproved"} |-> Eq(FALSE)], CreatedDesc)
  \/ ListingFindAll(1, [op |-> "getPropertiesDynamic", args |-> NoArgs],
                    DynamicWhere(NoArgs), BuildOrder(NoArgs.sortBy))
  \/ \E i \in 1..MaxProps : ListingFetchResolves(1, i)
  \/ (\E id \in 1..MaxProps : AddImage(Urls[nextImageId], id)) /\ Meanwhile
  \/ (\E k \in 1..MaxImages : DeleteImage(k)) /\ Meanwhile
  \/ (\E id \in 1..MaxProps : DeleteProperty(id)) /\ Meanwhile
  \/ (\E id \in 1..MaxProps : ApproveProperty(id)) /\ Meanwhile

SpecInterleaved == InitInterleaved /\ [][NextInterleaved]_vars

\* ---------------------------------------------------------------- Dashboard
\* The Dashboard page in the browser.  view holds the component's state and
\* the requests it has sent: a request is "sent" until the server answers it,
\* "answered" until the browser receives the response, then "done".

\* setPriceRange of the category effect
DefaultPriceRange(category) ==
  IF category = "Rental" THEN <<0, 5000>> ELSE <<0, 2000000>>

\* The useState initial values; user is the user object of localStorage.
MountedView(user) ==
  [mounted |-> TRUE, user |-> user, category |-> "Sale", type |-> "Apartment",
   searchQuery |-> "", sortBy |-> "newly-listed", sortOrder |-> "asc",
   priceRange |-> <<0, 2000000>>, furnished |-> FALSE,
   minYear |-> 1900, maxYear |-> CurrentYear,
   properties |-> <<>>, loading |-> TRUE, error |-> FALSE, fetches |-> <<>>]

\* sortParam of fetchProperties
SortParam(v) ==
  IF v.sortBy = "price" THEN "price_" \o v.sortOrder
  ELSE IF v.sortBy = "newly-listed" THEN "date_" \o v.sortOrder
  ELSE ""

\* requestBody of fetchProperties: the user's id goes under the name user_id.
RequestBody(v) ==
  [isRent |-> Some(v.category = "Rental"),
   sortBy |-> Some(SortParam(v)),
   propertyType |-> Some(IF v.type = "Apartment" THEN "apartment" ELSE "villa"),
   minPrice |-> Some(v.priceRange[1]),
   maxPrice |-> Some(v.priceRange[2]),
   furnished |-> Some(v.furnished),
   minYear |-> Some(v.minYear),
   maxYear |-> Some(v.maxYear),
   user_id |-> v.user,
   city |-> IF v.searchQuery = "" THEN None ELSE Some(v.searchQuery)]

\* The client PropertyService.getPropertiesDynamic: the body it posts holds the
\* ten names it destructures from its argument; a name the argument does not
\* have is undefined.
ClientGetPropertiesDynamic(o) ==
  [f \in DOMAIN NoBody |->
     IF f \in {"isRent", "sortBy", "city", "propertyType", "minPrice", "maxPrice",
               "minYear", "maxYear", "furnished", "userId"} /\ f \in DOMAIN o
       THEN o[f] ELSE None]

\* getToken: the token of the logged-in user
TokenOf(user) == IF user = None THEN None ELSE Token(user[1], TRUE)

\* fetchProperties up to its await: setLoading(true), setError(null), and the
\* request is sent.
FetchProperties(v) ==
  [v EXCEPT !.loading = TRUE, !.error = FALSE,
            !.fetches = Append(@, [body |-> ClientGetPropertiesDynamic(RequestBody(v)),
                                   at |-> "sent", array |-> FALSE, data |-> <<>>])]

\* The component is mounted: both effects run.  The category effect sets
\* priceRange to a new array, so the fetch effect runs a second time.
Mount(user) ==
  /\ view = NotMounted
  /\ view' = FetchProperties(FetchProperties(MountedView(user)))
  /\ UNCHANGED <<storeVars, reqVars, inflight, http>>

\* setCategory: the fetch effect runs with the new category and the old
\* priceRange, the category effect resets priceRange and the fetch effect runs
\* again.
SetCategory(category) ==
  /\ view.mounted /\ category # view.category
  /\ Len(view.fetches) + 2 <= MaxFetches
  /\ view' = FetchProperties(
               [FetchProperties([view EXCEPT !.category = category])
                  EXCEPT !.priceRange = DefaultPriceRange(category)])
  /\ UNCHANGED <<storeVars, reqVars, inflight, http>>

\* setType
SetType(type) ==
  /\ view.mounted /\ type # view.type
  /\ Len(view.fetches) + 1 <= MaxFetches
  /\ view' = FetchProperties([view EXCEPT !.type = type])
  /\ UNCHANGED <<storeVars, reqVars, inflight, http>>

\* setFurnished
SetFurnished(furnished) ==
  /\ view.mounted /\ furnished # view.furnished
  /\ Len(view.fetches) + 1 <= MaxFetches
  /\ view' = FetchProperties([view EXCEPT !.furnished = furnished])
  /\ UNCHANGED <<storeVars, reqVars, inflight, http>>

\* The server answers request i: response.data of a 200, or what
\* handleApiError returns (an object, not an array).
Serve(i) ==
  /\ view.mounted /\ i \in DOMAIN view.fetches /\ view.fetches[i].at = "sent"
  /\ GetPropertiesDynamicRequest(TokenOf(view.user), view.fetches[i].body)
  /\ view' = [view EXCEPT !.fetches[i] =
                [@ EXCEPT !.at = "answered",
                          !.array = http'.code = 200,
                          !.data = IF http'.code = 200 THEN reply'.value ELSE <<>>]]
  /\ UNCHANGED inflight

\* The await of request i returns: setProperties(response) when the response
\* is an array, setError otherwise; finally setLoading(false).
Receive(i) ==
  /\ view.mounted /\ i \in DOMAIN view.fetches /\ view.fetches[i].at = "answered"
  /\ view' = [view EXCEPT !.fetches[i].at = "done",
                          !.properties = IF view.fetches[i].array
                                           THEN view.fetches[i].data ELSE @,
                          !.error = IF view.fetches[i].array THEN @ ELSE TRUE,
                          !.loading = FALSE]
  /\ UNCHANGED <<storeVars, reqVars, inflight, http>>

\* The Dashboard of a visitor or of a logged-in user on the seeded store.
NextDashboard ==
  \/ \E u \in {None} \cup { Some(x) : x \in UserIds } : Mount(u)
  \/ \E c \in {"Sale", "Rental"} : SetCategory(c)
  \/ \E t \in {"Apartment", "Villa"} : SetType(t)
  \/ \E f \in BOOLEAN : SetFurnished(f)
  \/ \E i \in 1..MaxFetches : Serve(i)
  \/ \E i \in 1..MaxFetches : Receive(i)

SpecDashboard == InitQuery /\ [][NextDashboard]_vars

\* ------------------------------------------------------------ getPropertyById
\* return property (null when there is none)
GetPropertyByIdOrNull(property_id) ==
  /\ Returns([op |-> "getPropertyById", property_id |-> property_id],
             IF property_id \notin DOMAIN properties
               THEN Ok(None) ELSE Ok(Some(properties[property_id])))
  /\ UNCHANGED storeVars

GetPropertyById(property_id) ==
  LET c == [op |-> "getPropertyById", property_id |-> property_id]
  IN  /\ IF property_id \notin DOMAIN properties
           THEN Returns(c, Thrown(ErrNotFound))
           ELSE Returns(c, Ok(Some(properties[property_id])))
      /\ UNCHANGED storeVars

\* ----------------------------------------------------------------- deleteUser
PropertyIdsOfUser(userId) ==
  { id \in DOMAIN properties : properties[id].user_id = userId }

\* user.destroy(): Properties.user_id is ON DELETE CASCADE, and the rows that
\* reference the deleted properties go with them.
DeleteUser(userId) ==
  LET c == [op |-> "deleteUser", userId |-> userId]
      gone == PropertyIdsOfUser(userId)
  IN  IF userId \notin users
        THEN /\ Returns(c, Thrown(ErrUserNotFound))
             /\ UNCHANGED storeVars
        ELSE /\ users' = users \ {userId}
             /\ properties' = [id \in DOMAIN properties \ gone |-> properties[id]]
             /\ images' = [k \in { i \in DOMAIN images : images[i].property_id \notin gone }
                             |-> images[k]]
             /\ models' = [m \in { i \in DOMAIN models : models[i].property_id \notin gone }
                             |-> models[m]]
             /\ Returns(c, Ok(None))
             /\ UNCHANGED <<nextPropId, nextImageId, nextModelId, now>>

\* ------------------------------------------------------- propertyModelService
\* the table is created without the foreign key
NoForeignKey(property_id) == TRUE

\* The foreign key of PropertyModels.property_id, checked by the store on INSERT.
ReferencesProperty(property_id) == property_id \in DOMAIN properties

\* const property = await Property.findByPk(property_id)
CreatePropertyModelFindByPk(r, property_id, model_url) ==
  /\ r \notin DOMAIN inflight
  /\ inflight' = Suspend(r, [op |-> "createPropertyModel", property_id |-> property_id,
                             model_url |-> model_url,
                             property |-> property_id \in DOMAIN properties,
                             at |-> "findByPk", reply |-> Pending])
  /\ UNCHANGED <<storeVars, reqVars, http, view>>

\* if (!property) throw ...; if (!model_url) throw ...;
\* return await PropertyModel.create({ property_id, model_url })
CreatePropertyModelCreate(r) ==
  /\ r \in DOMAIN inflight
  /\ inflight[r].op = "createPropertyModel" /\ inflight[r].at = "findByPk"
  /\ LET l == inflight[r]
         row == [model_id |-> nextModelId, property_id |-> l.property_id,
                 model_url |-> l.model_url]
         Done(reply_) == inflight' = [inflight EXCEPT ![r].at = "returned",
                                                      ![r].reply = reply_]
     IN  IF ~l.property
           THEN Done(Thrown(ErrNotFound)) /\ UNCHANGED storeVars
         ELSE IF l.model_url = ""
           THEN Done(Thrown(ErrModelUrl)) /\ UNCHANGED storeVars
         ELSE IF ~ReferencesProperty(l.property_id)
           THEN Done(Thrown(ErrForeignKey)) /\ UNCHANGED storeVars
         ELSE /\ nextModelId <= MaxModels
              /\ models' = [m \in DOMAIN models \cup {nextModelId} |->
                              IF m = nextModelId THEN row ELSE models[m]]
              /\ nextModelId' = nextModelId + 1
              /\ Done(Ok(Some(row)))
              /\ UNCHANGED <<users, properties, nextPropId, images, nextImageId, now>>
  /\ UNCHANGED <<reqVars, http, view>>

\* Users, properties, images and 360-degree models: the service calls that add
\* rows and those that remove parent rows, createPropertyModel await by await.
\* Request ids are given out in order; a request without a model_url is made
\* for a property that exists, since the url is only looked at once the
\* property was found.
NextIntegrity ==
  \/ UNCHANGED <<inflight, http, view>>
       /\ \E u \in UserIds : CreateProperty(ImageNames[nextPropId], u, ImageProfile, now + 1)
  \/ UNCHANGED <<inflight, http, view>> /\ \E id \in 1..MaxProps : DeleteProperty(id)
  \/ UNCHANGED <<inflight, http, view>> /\ \E u \in UserIds : DeleteUser(u)
  \/ UNCHANGED <<inflight, http, view>> /\ nextImageId < MaxImages
       /\ \E id \in 1..MaxProps : AddImage(Urls[nextImageId], id)
  \/ \E r \in 1..(MaxRequests - 1), id \in 1..MaxProps, url \in {"", ModelUrls[nextModelId]} :
       /\ r = Cardinality(DOMAIN inflight) + 1
       /\ url = "" => id \in DOMAIN properties
       /\ CreatePropertyModelFindByPk(r, id, url)
  \/ \E r \in 1..MaxRequests : CreatePropertyModelCreate(r)

SpecIntegrity == Init /\ [][NextIntegrity]_vars

\* Deleting properties that have images and 360-degree models, and looking
\* properties up by id.
NextCascade ==
  \/ UNCHANGED <<inflight, http, view>>
       /\ CreateProperty(ImageNames[nextPropId], 1, ImageProfile, now + 1)
  \/ UNCHANGED <<inflight, http, view>> /\ \E id \in 1..MaxProps : DeleteProperty(id)
  \/ UNCHANGED <<inflight, http, view>> /\ \E id \in 1..MaxProps : GetPropertyById(id)
  \/ UNCHANGED <<inflight, http, view>> /\ nextImageId < MaxImages
       /\ \E id \in 1..MaxProps : AddImage(Urls[nextImageId], id)
  \/ \E r \in 1..MaxRequests, id \in 1..MaxProps :
       /\ r = Cardinality(DOMAIN inflight) + 1
       /\ \A q \in DOMAIN inflight : inflight[q].at = "returned"
       /\ CreatePropertyModelFindByPk(r, id, ModelUrls[nextModelId])
  \/ \E r \in 1..MaxRequests : CreatePropertyModelCreate(r)

SpecCascade == Init /\ [][NextCascade]_vars

\* Calls by property_id, on ids that exist and ids that do not, over a store
\* with an image row.
NextById ==
  \/ Idle /\ UNCHANGED <<inflight, http, view>>
          /\ CreateProperty(ImageNames[nextPropId], 1, ImageProfile, now + 1)
  \/ Idle /\ UNCHANGED <<inflight, http, view>>
          /\ \E id \in 1..MaxProps : UpdateProperty(id, [NoPatch EXCEPT !.price = Some(200)])
  \/ Idle /\ UNCHANGED <<inflight, http, view>> /\ \E id \in 1..MaxProps : DeleteProperty(id)
  \/ Idle /\ UNCHANGED <<inflight, http, view>> /\ \E id \in 1..MaxProps : ApproveProperty(id)
  \/ Idle /\ UNCHANGED <<inflight, http, view>> /\ \E id \in 1..MaxProps : GetPropertyById(id)
  \/ Idle /\ UNCHANGED <<inflight, http, view>> /\ nextImageId < MaxImages
          /\ \E id \in 1..MaxProps : AddImage(Urls[nextImageId], id)

SpecById == Init /\ [][NextById]_vars

\* One updateProperty call on the seeded store, with every combination of
\* supplied and omitted arguments; a supplied property_type or year_built may
\* be one the model rejects.
AllPatches ==
  [name : {None, Some("Loft")},
   description : {None, Some("e")},
   city : {None, Some("Saida")},
   price : {None, Some(300)},
   property_type : {None, Some("villa"), Some("house")},
   bedrooms : {None, Some(5)},
   bathrooms : {None, Some(4)},
   living_rooms : {None, Some(3)},
   balconies : {None, Some(2)},
   parking_spaces : {None, Some(1)},
   furnished : {None, Some(TRUE)},
   year_built : {None, Some(2020), Some(1700)}]

NextUpdate ==
  /\ pc = "ready"
  /\ \E id \in {1, SeedRows, SeedRows + 1}, patch \in AllPatches : UpdateProperty(id, patch)
  /\ UNCHANGED <<inflight, http, view>>

SpecUpdate == InitQuery /\ [][NextUpdate]_vars

\* ------------------------------------------------- listing specification
\* The six listing operations over stores of properties of both types in two
\* cities, approved or not, all of user 1.  A property is created in the same
\* instant as the one before it or in the next one (only the order of the
\* created_at values matters to a listing).
ListingProfiles ==
  { Profile("Beirut", 100, "apartment", FALSE, Some(2000), FALSE),
    Profile("Beirut", 100, "villa", FALSE, Some(2000), FALSE),
    Profile("Tripoli", 100, "villa", FALSE, Some(2000), FALSE) }

\* Dynamic requests that match nothing: a minimum above the maximum, a city
\* with no property; and one with no filter.
ListingArgs ==
  { NoArgs,
    [NoArgs EXCEPT !.minPrice = Some(200), !.maxPrice = Some(100)],
    [NoArgs EXCEPT !.minYear = Some(2010), !.maxYear = Some(2000)],
    [NoArgs EXCEPT !.city = Some("Saida")] }

NextListing ==
  \/ Idle /\ UNCHANGED <<inflight, http, view>>
          /\ \E p \in ListingProfiles,
                t \in (IF nextPropId = 1 THEN {now} ELSE {now, now + 1}) :
               CreateProperty(ImageNames[nextPropId], 1, p, t)
  \/ Idle /\ UNCHANGED <<inflight, http, view>> /\ \E id \in 1..MaxProps : ApproveProperty(id)
  \/ Idle /\ UNCHANGED <<inflight, http, view>> /\ \E id \in 1..MaxProps : DeleteProperty(id)
  \/ Idle /\ UNCHANGED <<inflight, http, view>> /\ GetApprovedProperties
  \/ Idle /\ UNCHANGED <<inflight, http, view>> /\ GetNonApprovedProperties
  \/ Idle /\ UNCHANGED <<inflight, http, view>>
          /\ \E x \in {"apartment", "villa", "house"} : GetPropertiesByType(x)
  \/ Idle /\ UNCHANGED <<inflight, http, view>>
          /\ \E x \in {"apartment", "villa"}, y \in {"Beirut", "Tripoli"} :
               GetPropertiesByLocation(x, y)
  \/ Idle /\ UNCHANGED <<inflight, http, view>> /\ \E u \in UserIds : GetPropertiesByUserId(u)
  \/ Idle /\ UNCHANGED <<inflight, http, view>> /\ \E a \in ListingArgs : GetPropertiesDynamic(a)
  \/ UNCHANGED <<inflight, http, view>> /\ \E i \in 1..MaxProps : FetchResolves(i)

SpecListing == Init /\ [][NextListing]_vars

\* ------------------------------------------------- the other services
\* A listing with images whose image queries are answered in row order, in
\* one step.
ListingWhole(c, w, order, err) ==
  IF ~OrderValid(order)
    THEN /\ Returns(c, Thrown(err))
         /\ UNCHANGED storeVars
    ELSE \E s \in FindAll(w, order) :
           /\ call' = c
           /\ rows' = s
           /\ fetched' = [i \in 1..Len(s) |-> GetImagesByProperty(s[i].property_id)]
           /\ completion' = [i \in 1..Len(s) |-> i]
           /\ pc' = "done"
           /\ reply' = Ok(PromiseAll(Attached(rows', fetched'), completion'))
           /\ UNCHANGED storeVars

ErrModelNotFound == "360 Property Model not found"
ErrUndefinedWhere == "WHERE parameter \"property_type\" has invalid \"undefined\" value"

\* createPropertyModel with nothing interleaved between its two awaits.
CreatePropertyModel(property_id, model_url) ==
  LET c == [op |-> "createPropertyModel", property_id |-> property_id,
            model_url |-> model_url]
      row == [model_id |-> nextModelId, property_id |-> property_id,
              model_url |-> model_url]
  IN  IF property_id \notin DOMAIN properties
        THEN Returns(c, Thrown(ErrNotFound)) /\ UNCHANGED storeVars
      ELSE IF model_url = ""
        THEN Returns(c, Thrown(ErrModelUrl)) /\ UNCHANGED storeVars
      ELSE /\ nextModelId <= MaxModels
           /\ models' = [m \in DOMAIN models \cup {nextModelId} |->
                           IF m = nextModelId THEN row ELSE models[m]]
           /\ nextModelId' = nextModelId + 1
           /\ Returns(c, Ok(Some(row)))
           /\ UNCHANGED <<users, properties, nextPropId, images, nextImageId, now>>

GetPropertyModelById(model_id) ==
  LET c == [op |-> "getPropertyModelById", model_id |-> model_id]
  IN  /\ IF model_id \notin DOMAIN models
           THEN Returns(c, Thrown(ErrModelNotFound))
           ELSE Returns(c, Ok(Some(models[model_id])))
      /\ UNCHANGED storeVars

\* PropertyModel.findAll({ where: { property_id } }), in ascending model_id order.
GetPropertyModelsByPropertyId(property_id) ==
  LET c == [op |-> "getPropertyModelsByPropertyId", property_id |-> property_id]
      ids == AscendingIds(ModelIdsOf(property_id))
  IN  /\ IF property_id \notin DOMAIN properties
           THEN Returns(c, Thrown(ErrNotFound))
           ELSE Returns(c, Ok([i \in 1..Len(ids) |-> models[ids[i]]]))
      /\ UNCHANGED storeVars

DeletePropertyModel(model_id) ==
  LET c == [op |-> "deletePropertyModel", model_id |-> model_id]
  IN  IF model_id \notin DOMAIN models
        THEN /\ Returns(c, Thrown(ErrModelNotFound))
             /\ UNCHANGED storeVars
        ELSE /\ models' = [m \in DOMAIN models \ {model_id} |-> models[m]]
             /\ Returns(c, Ok(Some(models[model_id])))
             /\ UNCHANGED <<users, properties, nextPropId, images, nextImageId,
                            nextModelId, now>>

\* --------------------------------------------------------- the other routes
\* router.<method>(path, authToken, ..., handler): the handler runs once
\* authenticateToken has called next().
AuthToken(token, route, handler) ==
  IF AuthenticateToken(token) # 0
    THEN Answered(Request(route, token, None, None, None, AuthenticateToken(token)))
    ELSE handler /\ UNCHANGED <<inflight, view>>

\* res.status(reply is a value ? ok : err).json(...)
Responds(route, token, ok, err) ==
  http' = Request(route, token, None, None, None,
                  IF reply'.status = "ok" THEN ok ELSE err)

GetPropertyByIdRequest(token, property_id) ==
  AuthToken(token, "GET /get",
            GetPropertyById(property_id) /\ Responds("GET /get", token, 200, 404))

GetPropertiesByUserIdRequest(token, user_id) ==
  AuthToken(token, "GET /user",
            /\ ListingWhole([op |-> "getPropertiesByUserId", user_id |-> user_id],
                            [c \in {"user_id"} |-> Eq(user_id)], CreatedDesc, ErrByUser)
            /\ Responds("GET /user", token, 200, 400))

GetApprovedPropertiesRequest(token) ==
  AuthToken(token, "GET /approved",
            GetApprovedProperties /\ Responds("GET /approved", token, 200, 400))

GetNonApprovedPropertiesRequest(token) ==
  AuthToken(token, "GET /non-approved",
            /\ ListingWhole([op |-> "getNonApprovedProperties"],
                            [c \in {"isApproved"} |-> Eq(FALSE)], CreatedDesc,
                            ErrNonApproved)
            /\ Responds("GET /non-approved", token, 200, 400))

\* GET /type/:propertyType: the handler passes req.query.property_type to the
\* service; findAll throws on a where value that is undefined.
GetPropertiesByTypeRequest(token, propertyType, query) ==
  AuthToken(token, "GET /type/" \o propertyType,
            /\ IF query.property_type = None
                 THEN /\ Returns([op |-> "getPropertiesByType", propertyType |-> None],
                                 Thrown(ErrUndefinedWhere))
                      /\ UNCHANGED storeVars
                 ELSE GetPropertiesByType(query.property_type[1])
            /\ Responds("GET /type/" \o propertyType, token, 200, 400))

\* GET /location: validateGetPropertiesByLocation (on body.city), authToken,
\* validate, then the handler, which reads req.query.
GetPropertiesByLocationRequest(token, body, query) ==
  AuthToken(token, "GET /location",
            IF Validate(body.city # None /\ Len(body.city[1]) >= 3) # 0
              THEN /\ http' = Request("GET /location", token, None, None, None, 400)
                   /\ UNCHANGED <<storeVars, reqVars>>
              ELSE /\ GetPropertiesByLocation(query.property_type, query.city)
                   /\ Responds("GET /location", token, 200, 400))

\* POST /api/property-images/add
AddPropertyImageRequest(token, image_url, property_id) ==
  AuthToken(token, "POST /property-images/add",
            /\ AddImage(image_url, property_id)
            /\ Responds("POST /property-images/add", token, 201, 400))

\* GET /api/property-images/:propertyId
GetPropertyImagesRequest(token, propertyId) ==
  AuthToken(token, "GET /property-images",
            /\ Returns([op |-> "getImagesByProperty", property_id |-> propertyId],
                       Ok(GetImagesByProperty(propertyId)))
            /\ UNCHANGED storeVars
            /\ Responds("GET /property-images", token, 200, 400))

\* DELETE /api/property-images/:imageId
DeletePropertyImageRequest(token, imageId) ==
  AuthToken(token, "DELETE /property-images",
            /\ DeleteImage(imageId)
            /\ Responds("DELETE /property-images", token, 200, 400))

\* POST /api/property-model/add
CreatePropertyModelRequest(token, property_id, model_url) ==
  AuthToken(token, "POST /property-model/add",
            /\ CreatePropertyModel(property_id, model_url)
            /\ Responds("POST /property-model/add", token, 201, 500))

\* GET /api/property-model/:id
GetPropertyModelByIdRequest(token, id) ==
  AuthToken(token, "GET /property-model",
            /\ GetPropertyModelById(id)
            /\ Responds("GET /property-model", token, 200, 500))

\* GET /api/property-model/property/:property_id: 404 when the list is empty.
GetPropertyModelsByPropertyIdRequest(token, property_id) ==
  AuthToken(token, "GET /property-model/property",
            /\ GetPropertyModelsByPropertyId(property_id)
            /\ http' = Request("GET /property-model/property", token, None, None, None,
                               IF reply'.status # "ok" THEN 500
                               ELSE IF reply'.value = <<>> THEN 404 ELSE 200))

\* DELETE /api/property-model/:id: getPropertyModelById, then deletePropertyModel.
DeletePropertyModelRequest(token, id) ==
  AuthToken(token, "DELETE /property-model",
            /\ DeletePropertyModel(id)
            /\ Responds("DELETE /property-model", token, 200, 500))

\* Every property, property-image and property-model route, called without a
\* token, with a token that jwt.verify rejects and with a verified one, on a
\* store that holds a property with an image and a 360-degree model, until a
\* request reaches its handler.

InitAuth ==
  /\ users = UserIds
  /\ properties = [id \in {1} |-> Catalogue[1]]
  /\ nextPropId = 2
  /\ images = [k \in {1} |-> [image_id |-> 1, image_url |-> Urls[1], property_id |-> 1]]
  /\ nextImageId = 2
  /\ models = [m \in {1} |-> [model_id |-> 1, property_id |-> 1, model_url |-> ModelUrls[1]]]
  /\ nextModelId = 2
  /\ now = 1
  /\ pc = "ready"
  /\ call = NoCall
  /\ rows = <<>>
  /\ fetched = NoFetch
  /\ completion = <<>>
  /\ reply = Ok(None)
  /\ inflight = NoneInFlight
  /\ http = NoRequest
  /\ view = NotMounted

\* No request has reached a handler yet.
Unserved == http.code \in {0, 401, 403}

NextAuth ==
  \/ Unserved /\ \E tk \in Tokens :
       CreatePropertyRequest(tk, [name |-> ImageNames[nextPropId], user_id |-> 1,
                                  profile |-> ImageProfile, isApproved |-> None], now + 1)
  \/ Unserved /\ \E tk \in Tokens, id \in {1, nextPropId}, b \in UpdateBodies :
       UpdatePropertyRequest(tk, id, b)
  \/ Unserved /\ \E tk \in Tokens, id \in {1, nextPropId} : DeletePropertyRequest(tk, id)
  \/ Unserved /\ \E tk \in Tokens, id \in {1, nextPropId} : GetPropertyByIdRequest(tk, id)
  \/ Unserved /\ \E tk \in Tokens, u \in UserIds : GetPropertiesByUserIdRequest(tk, u)
  \/ Unserved /\ \E tk \in Tokens : GetApprovedPropertiesRequest(tk)
  \/ Unserved /\ \E tk \in Tokens : GetNonApprovedPropertiesRequest(tk)
  \/ Unserved /\ \E tk \in Tokens \ {None}, id \in {1, nextPropId} :
       ApprovePropertyRequest(tk, id, Some(tk[1].user))
  \/ Unserved /\ \E tk \in Tokens, x \in {"apartment", "villa"},
                     q \in {None, Some("apartment")} :
       GetPropertiesByTypeRequest(tk, x, [property_type |-> q])
  \/ Unserved /\ \E tk \in Tokens :
       GetPropertiesByLocationRequest(tk, [city |-> Some("Beirut")],
                                      [property_type |-> "apartment", city |-> "Beirut"])
  \/ Unserved /\ UNCHANGED <<inflight, view>>
          /\ \E tk \in Tokens : GetPropertiesDynamicRequest(tk, NoBody)
  \/ Unserved
          /\ \E tk \in Tokens, id \in {1, nextPropId} :
               AddPropertyImageRequest(tk, Urls[nextImageId], id)
  \/ Unserved /\ \E tk \in Tokens, id \in {1, nextPropId} : GetPropertyImagesRequest(tk, id)
  \/ Unserved /\ \E tk \in Tokens, k \in {1, nextImageId} : DeletePropertyImageRequest(tk, k)
  \/ Unserved
          /\ \E tk \in Tokens, id \in {1, nextPropId} :
               CreatePropertyModelRequest(tk, id, ModelUrls[nextModelId])
  \/ Unserved /\ \E tk \in Tokens, m \in {1, nextModelId} : GetPropertyModelByIdRequest(tk, m)
  \/ Unserved /\ \E tk \in Tokens, id \in {1, nextPropId} :
       GetPropertyModelsByPropertyIdRequest(tk, id)
  \/ Unserved /\ \E tk \in Tokens, m \in {1, nextModelId} : DeletePropertyModelRequest(tk, m)

SpecAuth == InitAuth /\ [][NextAuth]_vars

\* ===================================================================
\* Properties
\* ===================================================================
ListingOps == {"getPropertiesByUserId", "getNonApprovedProperties", "getPropertiesDynamic"}

\* The property ids of a returned list.
IdsOf(list) == { list[i].property_id : i \in 1..Len(list) }

Returned == pc = "done" /\ reply.status = "ok"

\* C1: no property whose isApproved is false appears in the result of
\* getApprovedProperties or of getPropertiesDynamic, after any sequence of
\* createProperty, updateProperty, approveProperty and deleteProperty calls.
C1_OnlyApprovedListed ==
  (Returned /\ call.op \in {"getApprovedProperties", "getPropertiesDynamic"}) =>
    \A i \in 1..Len(reply.value) :
      /\ reply.value[i].isApproved = TRUE
      /\ reply.value[i].property_id \in DOMAIN properties
      /\ properties[reply.value[i].property_id].isApproved = TRUE

\* A dynamic listing that returned a property while an unapproved one, created
\* and then edited, was in the store.
C1_Witness ==
  /\ Returned /\ call.op = "getPropertiesDynamic"
  /\ call.args = NoArgs
  /\ Len(reply.value) = 1
  /\ \E id \in DOMAIN properties :
       ~properties[id].isApproved /\ properties[id].price = 200

\* C10: createProperty with a (name, user_id) pair that an existing property has
\* throws the duplicate-name error and adds no row; with the name of an existing
\* property under another (existing) user_id and valid data it succeeds and adds
\* exactly one row.
C10_DuplicateNamePerUser ==
  [][ call'.op = "createProperty" =>
        LET sameName == { id \in DOMAIN properties : properties[id].name = call'.name }
            mine == { id \in sameName : properties[id].user_id = call'.user_id }
        IN  /\ mine # {} =>
                 /\ reply' = Thrown(ErrDuplicate)
                 /\ properties' = properties
            /\ ( /\ sameName # {} /\ mine = {}
                 /\ call'.user_id \in users
                 /\ call'.profile.property_type \in {"apartment", "villa"}
                 /\ call'.profile.year_built \in {None} \cup { Some(y) : y \in 1800..2025 } ) =>
                 /\ reply'.status = "ok"
                 /\ \E new \in DOMAIN properties' \ DOMAIN properties :
                      /\ DOMAIN properties' = DOMAIN properties \cup {new}
                      /\ properties'[new].name = call'.name
                      /\ properties'[new].user_id = call'.user_id
                 /\ \A id \in DOMAIN properties : properties'[id] = properties[id]
    ]_vars

\* A rejected duplicate while the same name is held by two different users.
C10_Witness ==
  /\ call.op = "createProperty" /\ reply = Thrown(ErrDuplicate)
  /\ \E i, j \in DOMAIN properties :
       /\ properties[i].name = properties[j].name
       /\ properties[i].name = call.name
       /\ properties[i].user_id # properties[j].user_id

\* ------------------------------------------------------ dynamic filters
FilterNames ==
  {"isRent", "city", "propertyType", "minPrice", "maxPrice", "minYear", "maxYear",
   "furnished", "userId"}

\* What a present filter asks of a property; an absent one asks nothing.
Satisfies(p, a) ==
  /\ a.isRent # None => p.isForRent = a.isRent[1]
  /\ a.city # None => p.city = a.city[1]
  /\ a.propertyType # None => p.property_type = a.propertyType[1]
  /\ a.minPrice # None => p.price >= a.minPrice[1]
  /\ a.maxPrice # None => p.price <= a.maxPrice[1]
  /\ a.minYear # None => (p.year_built # None /\ p.year_built[1] >= a.minYear[1])
  /\ a.maxYear # None => (p.year_built # None /\ p.year_built[1] <= a.maxYear[1])
  /\ a.furnished # None => p.furnished = a.furnished[1]
  /\ a.userId # None => p.user_id # a.userId[1]

\* The arguments with only filter f kept (and no sort key).
Only(a, f) == [NoArgs EXCEPT ![f] = a[f]]

\* The ids the service's where object selects for arguments a.
Selected(a) == { id \in DOMAIN properties : Matches(properties[id], DynamicWhere(a)) }

DynamicReturned == Returned /\ call.op = "getPropertiesDynamic"

NoDuplicates(list) == Cardinality(IdsOf(list)) = Len(list)

\* C2: getPropertiesDynamic returns exactly the approved properties that satisfy
\* every present filter, each once; the result equals the intersection of the
\* results of the nine filters applied alone (an absent filter removes nothing).
C2_ConjunctionOfPresentFilters ==
  DynamicReturned =>
    /\ NoDuplicates(reply.value)
    /\ IdsOf(reply.value) =
         { id \in DOMAIN properties :
             properties[id].isApproved /\ Satisfies(properties[id], call.args) }
    /\ IdsOf(reply.value) =
         { id \in DOMAIN properties :
             \A f \in FilterNames : id \in Selected(Only(call.args, f)) }

\* isRent = false with a second filter present: a property is returned and an
\* approved one is filtered out.
C2_Witness ==
  /\ DynamicReturned
  /\ call.args.isRent = Some(FALSE) /\ call.args.maxYear # None /\ call.args.city = None
  /\ Len(reply.value) >= 1
  /\ \E id \in DOMAIN properties :
       properties[id].isApproved /\ id \notin IdsOf(reply.value)

InRange(v, lo, hi) ==
  /\ lo # None => (v # None /\ v[1] >= lo[1])
  /\ hi # None => (v # None /\ v[1] <= hi[1])

WithoutRanges(a) ==
  [a EXCEPT !.minPrice = None, !.maxPrice = None, !.minYear = None, !.maxYear = None]

\* C3: the price range and the year range are inclusive and conjunctive: of the
\* properties the other filters select, exactly those with
\* minPrice <= price <= maxPrice and minYear <= year_built <= maxYear are
\* returned, a missing bound constraining nothing.
C3_InclusiveRanges ==
  DynamicReturned =>
    IdsOf(reply.value) =
      { id \in Selected(WithoutRanges(call.args)) :
          /\ InRange(Some(properties[id].price), call.args.minPrice, call.args.maxPrice)
          /\ InRange(properties[id].year_built, call.args.minYear, call.args.maxYear) }

\* Both price bounds given and equal: the properties at the bound are returned,
\* a dearer approved one is not.
C3_Witness ==
  /\ DynamicReturned
  /\ call.args.minPrice = Some(100) /\ call.args.maxPrice = Some(100)
  /\ call.args.minYear = None /\ call.args.maxYear = None
  /\ \E i \in 1..Len(reply.value) : reply.value[i].price = 100
  /\ \E id \in DOMAIN properties :
       /\ properties[id].isApproved /\ properties[id].price = 200
       /\ id \in Selected(WithoutRanges(call.args))

\* C4: with the exclude-user argument U, no returned property has user_id U and
\* every other property the same call without the argument selects is returned.
C4_ExcludeUser ==
  (DynamicReturned /\ call.args.userId # None) =>
    /\ \A i \in 1..Len(reply.value) : reply.value[i].user_id # call.args.userId[1]
    /\ IdsOf(reply.value) =
         { id \in Selected([call.args EXCEPT !.userId = None]) :
             properties[id].user_id # call.args.userId[1] }

\* User 1 is excluded, owns an approved property, and another user's is returned.
C4_Witness ==
  /\ DynamicReturned
  /\ call.args.userId = Some(1)
  /\ Len(reply.value) >= 1
  /\ \E id \in Selected([call.args EXCEPT !.userId = None]) : properties[id].user_id = 1

\* a comes before or with b in MySQL's ascending order (NULL lowest).
NotAbove(a, b) == a = None \/ (b # None /\ a[1] <= b[1])

Ascending(list, key(_)) ==
  \A i, j \in 1..Len(list) : i < j => NotAbove(key(list[i]), key(list[j]))

Descending(list, key(_)) ==
  \A i, j \in 1..Len(list) : i < j => NotAbove(key(list[j]), key(list[i]))

PriceOf(p) == Some(p.price)
DateOf(p) == Some(p.created_at)
YearOf(p) == p.year_built

\* C5: for each recognised sortBy the returned sequence is ordered on the mapped
\* key (price, created_at, year_built; ascending or descending, a NULL year_built
\* lowest), and the set of returned properties is the one the filters select.
C5_SortedOnMappedKey ==
  (DynamicReturned /\ call.args.sortBy \in { Some(k) : k \in SortKeys }) =>
    /\ call.args.sortBy = Some("price_asc") => Ascending(reply.value, PriceOf)
    /\ call.args.sortBy = Some("price_desc") => Descending(reply.value, PriceOf)
    /\ call.args.sortBy = Some("date_asc") => Ascending(reply.value, DateOf)
    /\ call.args.sortBy = Some("date_desc") => Descending(reply.value, DateOf)
    /\ call.args.sortBy = Some("year_asc") => Ascending(reply.value, YearOf)
    /\ call.args.sortBy = Some("year_desc") => Descending(reply.value, YearOf)
    /\ IdsOf(reply.value) = Selected([call.args EXCEPT !.sortBy = None])
    /\ Len(reply.value) = Cardinality(Selected([call.args EXCEPT !.sortBy = None]))

\* price_desc over three properties, two of them at the same price.
C5_Witness ==
  /\ DynamicReturned
  /\ call.args.sortBy = Some("price_desc")
  /\ Len(reply.value) = 3
  /\ reply.value[1].price > reply.value[3].price
  /\ reply.value[2].price = reply.value[3].price

\* C6: with sortBy absent or not one of the six keys, buildOrder yields the empty
\* ordering and getPropertiesDynamic returns, without an error, the properties
\* the filters select.
C6_UnknownSortKeyTolerated ==
  (call.op = "getPropertiesDynamic"
     /\ call.args.sortBy \notin { Some(k) : k \in SortKeys }) =>
    /\ BuildOrder(call.args.sortBy) = <<>>
    /\ Returned
    /\ NoDuplicates(reply.value)
    /\ IdsOf(reply.value) = Selected([call.args EXCEPT !.sortBy = Some("price_asc")])

\* An unrecognised key, and three properties returned.
C6_Witness ==
  /\ DynamicReturned
  /\ call.args.sortBy = Some("newest")
  /\ Len(reply.value) = 3

\* ------------------------------------------------------ attached images
\* urls is the image_url of every PropertyImage row that references propertyId,
\* in ascending image_id order.
ImagesOfProperty(urls, propertyId) ==
  LET S == { k \in DOMAIN images : images[k].property_id = propertyId }
  IN  /\ Len(urls) = Cardinality(S)
      /\ \E f \in [1..Len(urls) -> S] :
           /\ \A i, j \in 1..Len(urls) : i < j => f[i] < f[j]
           /\ \A i \in 1..Len(urls) : urls[i] = images[f[i]].image_url

ListingReturned == Returned /\ call.op \in ListingOps

\* C7: every property returned by getPropertiesByUserId, getNonApprovedProperties
\* or getPropertiesDynamic carries an images array holding exactly the image_url
\* of each PropertyImage row referencing it, in ascending image_id order; with no
\* image rows the array is present and empty.
C7_ImagesOfEachProperty ==
  ListingReturned =>
    \A i \in 1..Len(reply.value) :
      /\ "images" \in DOMAIN reply.value[i]
      /\ ImagesOfProperty(reply.value[i].images, reply.value[i].property_id)
      /\ ImageIdsOf(reply.value[i].property_id) = {} => reply.value[i].images = <<>>

\* A listing that returned one property with two images and one with none.
C7_Witness ==
  /\ ListingReturned
  /\ \E i, j \in 1..Len(reply.value) :
       Len(reply.value[i].images) = 2 /\ reply.value[j].images = <<>>

\* C8: attachImagesToProperties returns one record per input property, in the
\* order of the input, whatever the order in which the image fetches complete;
\* each record has the fields of its input row and the images of its own
\* property_id.
C8_InputOrderPreserved ==
  ListingReturned =>
    /\ Len(reply.value) = Len(rows)
    /\ \A i \in 1..Len(rows) :
         /\ \A f \in DOMAIN rows[i] : reply.value[i][f] = rows[i][f]
         /\ DOMAIN reply.value[i] = DOMAIN rows[i] \cup {"images"}
         /\ \A j \in 1..Len(reply.value[i].images) :
              \E k \in DOMAIN images :
                /\ images[k].image_url = reply.value[i].images[j]
                /\ images[k].property_id = rows[i].property_id

\* Two rows whose image fetches resolved in the reverse order, one with images.
C8_Witness ==
  /\ ListingReturned
  /\ completion = <<2, 1>>
  /\ reply.value[1].images # reply.value[2].images

\* C9: while a listing waits for its image fetches, each step either resolves
\* one fetch with the true images of its property or ends the listing in its
\* error with no list; a failed fetch never becomes an empty or partial images
\* array of a returned list.
C9_FetchFailurePropagates ==
  [][ pc = "fetching" =>
        \/ /\ pc' = "error"
           /\ reply' = Thrown(ListingError(call.op))
           /\ reply'.value = None
        \/ /\ pc' \in {"fetching", "done"}
           /\ \E i \in (1..Len(rows)) \ DOMAIN fetched :
                /\ DOMAIN fetched' = DOMAIN fetched \cup {i}
                /\ ImagesOfProperty([j \in 1..Len(fetched'[i]) |-> fetched'[i][j].image_url],
                                    rows[i].property_id)
                /\ \A k \in DOMAIN fetched : fetched'[k] = fetched[k]
           /\ pc' = "done" =>
                /\ reply'.status = "ok"
                /\ \A i \in 1..Len(rows) :
                     ImagesOfProperty(reply'.value[i].images, rows[i].property_id)
    ]_vars

\* A listing of two rows in error after one fetch resolved and the fetch of a
\* property that has images failed.
C9_Witness ==
  /\ pc = "error" /\ call.op \in ListingOps
  /\ reply = Thrown(ListingError(call.op))
  /\ Len(rows) = 2 /\ Len(completion) = 1
  /\ \E i \in (1..2) \ DOMAIN fetched : ImageIdsOf(rows[i].property_id) # {}

\* ------------------------------------------------------ names per user
\* C11: in every state reachable by createProperty, updateProperty (renames
\* included) and deleteProperty calls, no two distinct properties have the same
\* user_id and the same name.
C11_UniqueNamePerUser ==
  \A i, j \in DOMAIN properties :
    (properties[i].user_id = properties[j].user_id
       /\ properties[i].name = properties[j].name) => i = j

Created(r) == r \in DOMAIN inflight /\ inflight[r].reply.status = "ok"

\* C12: of two createProperty calls with the same name and user_id whose findOne
\* and create steps interleave in any order, at most one creates a row and the
\* other fails with the duplicate-name error.
C12_ConcurrentCreateOnce ==
  \A r1, r2 \in DOMAIN inflight :
    ( /\ r1 # r2
      /\ inflight[r1].at = "returned" /\ inflight[r2].at = "returned"
      /\ inflight[r1].name = inflight[r2].name
      /\ inflight[r1].user_id = inflight[r2].user_id
      /\ Created(r1) ) =>
        inflight[r2].reply = Thrown(ErrDuplicate)

\* ------------------------------------------------------------- approval
\* C13: every property is created with isApproved = false whatever the create
\* request holds (an isApproved field included); isApproved becomes true only
\* in an approveProperty call on that property; no createProperty or
\* updateProperty call leaves a property approved that was not approved before.
C13_CreatedUnapproved ==
  [][ /\ \A id \in DOMAIN properties' \ DOMAIN properties :
           properties'[id].isApproved = FALSE
      /\ \A id \in DOMAIN properties \cap DOMAIN properties' :
           (~properties[id].isApproved /\ properties'[id].isApproved) =>
             (call'.op = "approveProperty" /\ call'.property_id = id)
      /\ call'.op \in {"createProperty", "updateProperty"} =>
           \A id \in DOMAIN properties' :
             properties'[id].isApproved =>
               (id \in DOMAIN properties /\ properties[id].isApproved)
    ]_vars

\* POST /create with isApproved: true in the body answered 201, and the
\* property it created is not approved.
C13_Witness ==
  /\ http.route = "POST /create" /\ http.code = 201
  /\ http.isApproved = Some(TRUE)
  /\ reply.status = "ok"
  /\ reply.value[1].isApproved = FALSE
  /\ properties[reply.value[1].property_id].isApproved = FALSE

\* C14: approval is one-way: a property whose isApproved is true keeps it true
\* in every later state in which it exists (ids are never given to a new row),
\* under update, approve, create and delete calls; approving an approved
\* property leaves it approved.
C14_ApprovalOneWay ==
  [][ /\ \A id \in DOMAIN properties \cap DOMAIN properties' :
           properties[id].isApproved => properties'[id].isApproved
      /\ \A id \in DOMAIN properties' \ DOMAIN properties : id >= nextPropId
      /\ nextPropId' >= nextPropId
      /\ (call'.op = "approveProperty" /\ reply'.status = "ok") =>
           properties'[call'.property_id].isApproved
    ]_vars

\* updateProperty changed the price of an approved property, which is still
\* approved.
C14_Witness ==
  /\ call.op = "updateProperty" /\ reply.status = "ok"
  /\ call.property_id \in DOMAIN properties
  /\ properties[call.property_id].isApproved
  /\ properties[call.property_id].price = 200

\* ------------------------------------------------------- authorisation
\* C15: isApproved changes to true only in answer to an approve request whose
\* actor (the caller the token identifies) is a user with isAdmin = true; an
\* approve request of an actor who is not an admin is answered 403 and leaves the
\* properties unchanged.
C15_OnlyAdminActorApproves ==
  [][ /\ \A id \in DOMAIN properties \cap DOMAIN properties' :
           (~properties[id].isApproved /\ properties'[id].isApproved) =>
             /\ http'.route = "PUT /approve"
             /\ http'.actor # None
             /\ http'.actor[1] \in Admins
      /\ ( /\ http'.route = "PUT /approve"
           /\ http'.actor # None
           /\ http'.actor[1] \notin Admins ) =>
             /\ http'.code = 403
             /\ properties' = properties
    ]_vars

\* C16: an update request modifies a property only when the authenticated
\* caller owns it, and a delete request removes one only when the caller owns
\* it or is an admin; such a request of any other authenticated user leaves the
\* properties unchanged.
C16_OwnerOnlyUpdateDelete ==
  [][ /\ (http'.route = "PUT /update" /\ properties' # properties) =>
           /\ http'.actor # None
           /\ http'.property_id[1] \in DOMAIN properties
           /\ properties[http'.property_id[1]].user_id = http'.actor[1]
      /\ (http'.route = "DELETE /delete" /\ properties' # properties) =>
           /\ http'.actor # None
           /\ http'.property_id[1] \in DOMAIN properties
           /\ \/ properties[http'.property_id[1]].user_id = http'.actor[1]
              \/ http'.actor[1] \in Admins
    ]_vars

\* ------------------------------------------------------------- cascade
\* C17: a deleteProperty(P) that succeeds leaves no PropertyImage row and no
\* PropertyModel row referencing P and leaves the images and models of every
\* other property, and the other properties, as they were; P's id is not given
\* to a later row, and getPropertyById(P) from then on throws 'Property not found'.
C17_DeleteCascades ==
  [][ /\ \A P \in DOMAIN properties \ DOMAIN properties' :
           /\ call' = [op |-> "deleteProperty", property_id |-> P]
           /\ reply' = Ok(None)
           /\ \A k \in DOMAIN images' : images'[k].property_id # P
           /\ \A m \in DOMAIN models' : models'[m].property_id # P
           /\ images' = [k \in { i \in DOMAIN images : images[i].property_id # P }
                           |-> images[k]]
           /\ models' = [m \in { i \in DOMAIN models : models[i].property_id # P }
                           |-> models[m]]
           /\ properties' = [id \in DOMAIN properties \ {P} |-> properties[id]]
      /\ \A P \in 1..(nextPropId - 1) :
           P \notin DOMAIN properties => P \notin DOMAIN properties'
      /\ ( /\ call'.op = "getPropertyById" /\ inflight' = inflight
           /\ call'.property_id \notin DOMAIN properties ) =>
             reply' = Thrown(ErrNotFound)
    ]_vars

\* getPropertyById of a deleted property threw not-found; an image row and a
\* model row went with a deleted property and a model of another one is left.
C17_Witness ==
  /\ call.op = "getPropertyById" /\ reply = Thrown(ErrNotFound)
  /\ call.property_id < nextPropId
  /\ \E k \in 1..(nextImageId - 1) : k \notin DOMAIN images
  /\ \E m \in 1..(nextModelId - 1) : m \notin DOMAIN models
  /\ \E m \in DOMAIN models : models[m].property_id \in DOMAIN properties

\* C18: in every state reachable by user, property, image and model calls
\* (deleteUser, deleteProperty, addImage and createPropertyModel with any
\* property_id, createPropertyModel interleaved with deleteProperty), every
\* PropertyImage and PropertyModel row references an existing Property and
\* every Property references an existing User.
C18_ReferentialIntegrity ==
  /\ \A k \in DOMAIN images : images[k].property_id \in DOMAIN properties
  /\ \A m \in DOMAIN models : models[m].property_id \in DOMAIN properties
  /\ \A id \in DOMAIN properties : properties[id].user_id \in users

\* A createPropertyModel that found its property, lost it to a delete before
\* its INSERT and was refused by the store; a user has been deleted.
C18_Witness ==
  /\ users # UserIds
  /\ \E r \in DOMAIN inflight :
       /\ inflight[r].op = "createPropertyModel" /\ inflight[r].at = "returned"
       /\ inflight[r].property
       /\ inflight[r].reply = Thrown(ErrForeignKey)

\* ------------------------------------------------------------ not found
\* C20: getPropertyById, updateProperty, deleteProperty and approveProperty
\* called with a property_id that does not exist throw 'Property not found' and
\* leave every table unchanged; getPropertyById with an existing id returns
\* exactly that property.
C20_NotFoundById ==
  [][ call'.op \in {"getPropertyById", "updateProperty", "deleteProperty",
                     "approveProperty"} =>
        /\ call'.property_id \notin DOMAIN properties =>
             /\ reply' = Thrown(ErrNotFound)
             /\ UNCHANGED storeVars
        /\ ( /\ call'.op = "getPropertyById"
             /\ call'.property_id \in DOMAIN properties ) =>
               /\ reply' = Ok(Some(properties[call'.property_id]))
               /\ reply'.value[1].property_id = call'.property_id
               /\ UNCHANGED storeVars
    ]_vars

\* updateProperty of an id that was never created threw not-found while the
\* store held a property and an image.
C20_Witness ==
  /\ call.op = "updateProperty" /\ reply = Thrown(ErrNotFound)
  /\ call.property_id >= nextPropId
  /\ DOMAIN properties # {} /\ DOMAIN images # {}

\* ------------------------------------------------------- partial update
Updatable ==
  {"name", "description", "city", "price", "property_type", "bedrooms", "bathrooms",
   "living_rooms", "balconies", "parking_spaces", "furnished", "year_built"}

\* The column value an argument of updateProperty asks for.
Supplied(patch, f) == IF f = "year_built" THEN patch[f] ELSE patch[f][1]

\* C19: updateProperty has partial-update semantics: after a call that
\* succeeds, each of the twelve updatable fields has the supplied value when the
\* argument was supplied and the value it had before when it was not, and the
\* other columns are as before; a call the model's validation rejects changes
\* nothing.
C19_PartialUpdate ==
  (pc # "ready" /\ call.op = "updateProperty" /\ call.property_id \in 1..SeedRows) =>
    LET before == Catalogue[call.property_id]
        after == properties[call.property_id]
    IN  /\ reply.status = "ok" =>
             /\ \A f \in Updatable :
                  after[f] = IF call.patch[f] = None THEN before[f]
                             ELSE Supplied(call.patch, f)
             /\ \A f \in DOMAIN before \ Updatable : after[f] = before[f]
             /\ reply.value = Some(after)
        /\ reply.status = "ok" <=>
             /\ call.patch.property_type \in {None, Some("apartment"), Some("villa")}
             /\ call.patch.year_built \in
                  {None} \cup { Some(y) : y \in MinYearBuilt..CurrentYear }
        /\ reply.status # "ok" => after = before

\* Price and furnished supplied and changed, name and year_built omitted and
\* kept (the year being NULL).
C19_Witness ==
  /\ pc = "done" /\ call.op = "updateProperty" /\ call.property_id \in 1..SeedRows
  /\ call.patch.price = Some(300) /\ call.patch.furnished = Some(TRUE)
  /\ call.patch.name = None /\ call.patch.year_built = None
  /\ LET before == Catalogue[call.property_id]
         after == properties[call.property_id]
     IN  /\ after.price = 300 /\ before.price # 300
         /\ after.furnished /\ ~before.furnished
         /\ after.name = before.name
         /\ after.year_built = None

\* ------------------------------------------------------- empty listings
\* No property in the store is one the listing call asks for.
NoMatch ==
  \A id \in DOMAIN properties :
    LET p == properties[id] IN
      /\ call.op = "getApprovedProperties" => ~p.isApproved
      /\ call.op = "getNonApprovedProperties" => p.isApproved
      /\ call.op = "getPropertiesByType" => p.property_type # call.propertyType
      /\ call.op = "getPropertiesByLocation" =>
           (p.property_type # call.propertyType \/ p.city # call.city)
      /\ call.op = "getPropertiesByUserId" => p.user_id # call.user_id
      /\ call.op = "getPropertiesDynamic" => ~(p.isApproved /\ Satisfies(p, call.args))

AllListingOps ==
  {"getApprovedProperties", "getNonApprovedProperties", "getPropertiesByType",
   "getPropertiesByLocation", "getPropertiesByUserId", "getPropertiesDynamic"}

\* C21: when no property matches, each of the six listing operations (a dynamic
\* call whose minimum bound exceeds its maximum bound included) returns the
\* empty list and signals no error.
C21_EmptyListNotError ==
  (call.op \in AllListingOps /\ NoMatch) =>
    /\ pc = "done"
    /\ reply = Ok(<<>>)

\* A dynamic call with minPrice above maxPrice returned the empty list while
\* the store held an approved property.
C21_Witness ==
  /\ call.op = "getPropertiesDynamic"
  /\ call.args.minPrice = Some(200) /\ call.args.maxPrice = Some(100)
  /\ reply = Ok(<<>>)
  /\ \E id \in DOMAIN properties : properties[id].isApproved

\* ------------------------------------------------- by type, by location
\* list holds exactly the rows of ids, each once, newest first, as stored.
ExactlyNewestFirst(list, ids) ==
  /\ IdsOf(list) = ids
  /\ NoDuplicates(list)
  /\ Descending(list, DateOf)
  /\ \A i \in 1..Len(list) :
       /\ "images" \notin DOMAIN list[i]
       /\ list[i] = properties[list[i].property_id]

\* C24: getPropertiesByType(X) returns exactly the properties whose
\* property_type is X, approved or not, by created_at descending and without an
\* images field; getPropertiesByLocation(X, Y) exactly those of type X in city
\* Y, in the same order.
C24_ByTypeAndLocation ==
  /\ call.op = "getPropertiesByType" =>
       /\ Returned
       /\ ExactlyNewestFirst(reply.value,
             { id \in DOMAIN properties :
                 properties[id].property_type = call.propertyType })
  /\ call.op = "getPropertiesByLocation" =>
       /\ Returned
       /\ ExactlyNewestFirst(reply.value,
             { id \in DOMAIN properties :
                 /\ properties[id].property_type = call.propertyType
                 /\ properties[id].city = call.city })

\* getPropertiesByType returned an approved and an unapproved property, the
\* newer one first.
C24_Witness ==
  /\ call.op = "getPropertiesByType" /\ Returned
  /\ Len(reply.value) = 2
  /\ reply.value[1].created_at > reply.value[2].created_at
  /\ reply.value[1].isApproved # reply.value[2].isApproved

\* ------------------------------------------------ validated range bounds
\* C22: a dynamic-filter request that passes the validation chain and reaches
\* getPropertiesDynamic with both bounds of a range present has
\* minimum <= maximum, for the price range and for the year range (one whose
\* minimum exceeds its maximum is rejected before the service).
C22_RangesOrderedAtService ==
  (http.route = "POST /dynamic" /\ call.op = "getPropertiesDynamic") =>
    /\ (call.args.minPrice # None /\ call.args.maxPrice # None) =>
         call.args.minPrice[1] <= call.args.maxPrice[1]
    /\ (call.args.minYear # None /\ call.args.maxYear # None) =>
         call.args.minYear[1] <= call.args.maxYear[1]

\* ------------------------------------------------------- authentication
\* C23: on every property, property-image and property-model route a request
\* without a token is answered 401 and one with an invalid token 403, and
\* neither reaches a handler: no table is read or written and no result is
\* produced; whatever a request reads, writes or returns, its token was
\* verified.
C23_HandlersBehindAuthToken ==
  [][ /\ (http' # http /\ http'.authorization = "absent") =>
           (http'.code = 401 /\ UNCHANGED <<storeVars, reqVars, inflight>>)
      /\ (http' # http /\ http'.authorization = "invalid") =>
           (http'.code = 403 /\ UNCHANGED <<storeVars, reqVars, inflight>>)
      /\ (storeVars' # storeVars \/ reqVars' # reqVars) =>
           (http'.authorization = "verified" /\ http'.actor # None)
    ]_vars

\* A request with an invalid token was answered 403 on a property-model route
\* after one without a token, and the property, the image and the model of
\* the store are still there.
C23_Witness ==
  /\ http.route = "DELETE /property-model" /\ http.code = 403
  /\ http.authorization = "invalid"
  /\ call = NoCall
  /\ DOMAIN properties = {1} /\ DOMAIN images = {1} /\ DOMAIN models = {1}

\* ---------------------------------------------------------- GET /type
\* C27: an authenticated GET /type/X is answered with the properties whose
\* property_type is X: the path value is the value given to
\* getPropertiesByType.
C27_ByTypeRouteUsesPathValue ==
  \A x \in {"apartment", "villa"} :
    (http.route = "GET /type/" \o x /\ http.authorization = "verified") =>
      /\ http.code = 200
      /\ call = [op |-> "getPropertiesByType", propertyType |-> x]
      /\ reply.status = "ok"
      /\ IdsOf(reply.value) =
           { id \in DOMAIN properties : properties[id].property_type = x }

\* -------------------------------------------------------- PUT /update
\* C25: an authenticated PUT /update/:property_id of a stored property whose
\* valid body carries year_built = Y and furnished = F succeeds and leaves the
\* property with year_built Y and furnished F: each body value reaches the
\* service parameter of its own name.
C25_UpdateStoresYearAndFurnished ==
  [][ \A tk \in Tokens, id \in DOMAIN properties, b \in UpdateBodies :
        (UpdatePropertyRequest(tk, id, b) /\ AuthenticateToken(tk) = 0) =>
          /\ http'.code = 200
          /\ call'.patch.year_built = b.year_built
          /\ properties'[id].year_built = b.year_built
          /\ properties'[id].furnished = b.furnished[1] ]_vars

\* ------------------------------------------------- frame of updateProperty
\* The columns updateProperty has no argument for.
Frame == {"property_id", "user_id", "isApproved", "isForRent", "square_meter", "created_at"}

\* C29: an updateProperty call, whatever arguments it is given and whether it
\* succeeds or throws, leaves property_id, user_id, isApproved, isForRent,
\* square_meter and created_at of the target row as they were, leaves every
\* other row of the table as it was, and adds or removes no row.
C29_UpdateFrame ==
  [][ call'.op = "updateProperty" =>
        /\ DOMAIN properties' = DOMAIN properties
        /\ \A id \in DOMAIN properties :
             IF id = call'.property_id
               THEN \A f \in Frame : properties'[id][f] = properties[id][f]
               ELSE properties'[id] = properties[id] ]_vars

\* Row 1 (approved, for sale, of user 1) was given a new name, city, price and
\* number of bedrooms; its frame columns and the other rows are those of the
\* seed.
C29_Witness ==
  /\ pc = "done" /\ call.op = "updateProperty" /\ call.property_id = 1
  /\ reply.status = "ok"
  /\ call.patch.name = Some("Loft") /\ call.patch.city = Some("Saida")
  /\ call.patch.price = Some(300) /\ call.patch.bedrooms = Some(5)
  /\ properties[1].name = "Loft" /\ properties[1].price = 300
  /\ properties[1].isApproved /\ ~properties[1].isForRent
  /\ properties[1].user_id = 1 /\ properties[1].created_at = Catalogue[1].created_at
  /\ \A id \in 2..SeedRows : properties[id] = Catalogue[id]

\* --------------------------------------------------------------- Dashboard
\* C26: the feed the Dashboard shows a logged-in user holds no property of
\* that user, and a Dashboard request that reaches getPropertiesDynamic
\* carries the user's id as the exclude-user argument.
C26_FeedExcludesOwnProperties ==
  (view.mounted /\ view.user # None) =>
    /\ \A i \in DOMAIN view.properties : view.properties[i].user_id # view.user[1]
    /\ (http.route = "POST /dynamic" /\ http.code = 200) => call.args.userId = view.user

\* Every request the Dashboard sent has been answered and received.
AllReceived ==
  /\ view.mounted /\ view.fetches # <<>>
  /\ \A i \in DOMAIN view.fetches : view.fetches[i].at = "done"

\* C30: once every request the Dashboard sent has completed, loading is false
\* and the list shown is the response to the last request, the one sent for
\* the current filter state.
C30_LatestResponseShown ==
  AllReceived =>
    /\ ~view.loading
    /\ view.fetches[Len(view.fetches)].array =>
         view.properties = view.fetches[Len(view.fetches)].data

\* ------------------------------------------------- interleaved listings
\* The image URLs of property id in the images table imgs, by image_id.
UrlsIn(imgs, id) ==
  LET ids == AscendingIds({ k \in DOMAIN imgs : imgs[k].property_id = id })
  IN  [i \in 1..Len(ids) |-> imgs[ids[i]].image_url]

\* C28: a listing that attaches images returns a result that matches one
\* state the store was in between the call and the return: every returned
\* property is a row of that state with those values and exactly the images
\* it has in that state.
C28_ListingMatchesOneStoreState ==
  \A r \in DOMAIN inflight :
    (inflight[r].at = "returned" /\ inflight[r].reply.status = "ok") =>
      \E st \in inflight[r].seen :
        \A i \in DOMAIN inflight[r].reply.value :
          LET p == inflight[r].reply.value[i] IN
            /\ p.property_id \in DOMAIN st.properties
            /\ \A f \in DOMAIN st.properties[p.property_id] :
                 p[f] = st.properties[p.property_id][f]
            /\ p.images = UrlsIn(st.images, p.property_id)

====
